---------------------------- MODULE Spec2Model ----------------------------
(***************************************************************************)
(* Model of the akshare-stock analysis core:                               *)
(*   - calc_technical.py : indicator engine (calc_ma, calc_macd, calc_rsi, *)
(*     calc_kdj, calc_boll, calc_volume_ratio) and analyze_signals;        *)
(*   - analyze_investment.py : InvestmentAnalyzer (four dimension scorers, *)
(*     get_total_score, get_recommendation, generate_report).              *)
(*                                                                         *)
(* Floating point values are modelled as exact rationals extended with     *)
(* NaN and +/-infinity; comparisons with NaN are false, x/0 is +/-inf and  *)
(* 0/0 is NaN, as IEEE-754 / numpy do.                                     *)
(***************************************************************************)
EXTENDS Integers, Sequences, FiniteSets, TLC

(***************************************************************************)
(* Extended rationals (the values of a float64 column).                    *)
(***************************************************************************)
Abs(x) == IF x < 0 THEN -x ELSE x

RECURSIVE GCD(_, _)
GCD(a, b) == IF b = 0 THEN a ELSE GCD(b, a % b)

NaN == [k |-> "nan", n |-> 0, d |-> 1]
PInf == [k |-> "inf", n |-> 1, d |-> 1]
NInf == [k |-> "inf", n |-> -1, d |-> 1]

\* the finite value n/d, in lowest terms with a positive denominator
Rat(n, d) ==
    LET s == IF d < 0 THEN -1 ELSE 1
        g == GCD(Abs(n), Abs(d))
    IN  [k |-> "fin", n |-> (s * n) \div g, d |-> (s * d) \div g]

Int2Num(i) == [k |-> "fin", n |-> i, d |-> 1]

IsNaN(x) == x.k = "nan"
IsFin(x) == x.k = "fin"
IsInf(x) == x.k = "inf"
Sign(x) == IF x.n > 0 THEN 1 ELSE IF x.n < 0 THEN -1 ELSE 0

Neg(x) == [x EXCEPT !.n = -x.n]

LCM(a, b) == (a \div GCD(a, b)) * b

Add(x, y) ==
    IF IsNaN(x) \/ IsNaN(y) THEN NaN
    ELSE IF IsInf(x) /\ IsInf(y) THEN (IF x.n = y.n THEN x ELSE NaN)
    ELSE IF IsInf(x) THEN x
    ELSE IF IsInf(y) THEN y
    ELSE LET l == LCM(x.d, y.d)
         IN  Rat(x.n * (l \div x.d) + y.n * (l \div y.d), l)

Sub(x, y) == Add(x, Neg(y))

Mul(x, y) ==
    IF IsNaN(x) \/ IsNaN(y) THEN NaN
    ELSE IF IsInf(x) \/ IsInf(y)
         THEN (IF Sign(x) * Sign(y) = 0 THEN NaN
               ELSE IF Sign(x) * Sign(y) > 0 THEN PInf ELSE NInf)
    ELSE LET g1 == GCD(Abs(x.n), y.d)
             g2 == GCD(Abs(y.n), x.d)
         IN  Rat((x.n \div g1) * (y.n \div g2), (x.d \div g2) * (y.d \div g1))

\* float division: x/0 is +/-inf, 0/0 is NaN, no exception (numpy semantics)
Div(x, y) ==
    IF IsNaN(x) \/ IsNaN(y) THEN NaN
    ELSE IF IsInf(x) /\ IsInf(y) THEN NaN
    ELSE IF IsInf(x) THEN (IF Sign(x) * Sign(y) >= 0 THEN PInf ELSE NInf)
    ELSE IF IsInf(y) THEN Int2Num(0)
    ELSE IF y.n = 0
         THEN (IF x.n = 0 THEN NaN ELSE IF x.n > 0 THEN PInf ELSE NInf)
    ELSE Mul(x, Rat(y.d, y.n))

\* comparisons: every comparison with NaN is False
Gt(x, y) ==
    /\ ~IsNaN(x)
    /\ ~IsNaN(y)
    /\ IF IsInf(x) THEN x.n > 0 /\ x # y
       ELSE IF IsInf(y) THEN y.n < 0
       ELSE LET l == LCM(x.d, y.d)
            IN  x.n * (l \div x.d) > y.n * (l \div y.d)

Lt(x, y) == Gt(y, x)
Ge(x, y) == ~IsNaN(x) /\ ~IsNaN(y) /\ ~Gt(y, x)
Le(x, y) == Ge(y, x)


(***************************************************************************)
(* Python values found in fetched tables: None, False, float NaN, a        *)
(* number, or a string (a sequence of one-character strings).              *)
(***************************************************************************)
PyNone == [t |-> "none", v |-> 0]
PyFalse == [t |-> "bool", v |-> 0]
PyNaN == [t |-> "nan", v |-> 0]
PyNum(i) == [t |-> "num", v |-> i]
PyStr(s) == [t |-> "str", v |-> s]

\* bool(x): None, False, 0 and "" are falsy; NaN and any other value truthy
Truthy(x) ==
    CASE x.t = "none" -> FALSE
      [] x.t = "bool" -> FALSE
      [] x.t = "nan" -> TRUE
      [] x.t = "num" -> x.v # 0
      [] x.t = "str" -> x.v # <<>>

\* x > c, x < c for a Python value x and an int c: False for NaN
PyGt(x, c) == x.t = "num" /\ x.v > c
PyLt(x, c) == x.t = "num" /\ x.v < c
\* ordering a str against an int raises TypeError
CmpRaises(x) == x.t = "str"

\* a signal line: the leading emoji (green/yellow/red/white) and its text
Sig(mark, text) == [mark |-> mark, text |-> text]

BASELINE == 50

Dims == {"valuation", "growth", "fund_flow", "technical"}

\* a scorer's outcome: it either returns result or raises
Returned(score, signals) ==
    [raised |-> FALSE, result |-> [score |-> score, signals |-> signals]]
Raised == [raised |-> TRUE, result |-> [score |-> 0, signals |-> <<>>]]

(***************************************************************************)
(* InvestmentAnalyzer.analyze_valuation                                    *)
(***************************************************************************)
\* the P/E block: <<raised, score delta, signals>>
ValuationPE(pe) ==
    IF ~Truthy(pe) THEN <<FALSE, 0, <<>>>>
    ELSE IF CmpRaises(pe) THEN <<TRUE, 0, <<>>>>
    ELSE IF ~PyGt(pe, 0) THEN <<FALSE, 0, <<>>>>
    ELSE IF PyLt(pe, 15) THEN <<FALSE, 20, <<Sig("green", "PE<15")>>>>
    ELSE IF PyLt(pe, 25) THEN <<FALSE, 10, <<Sig("yellow", "PE 15-25")>>>>
    ELSE IF PyLt(pe, 40) THEN <<FALSE, 0, <<Sig("yellow", "PE 25-40")>>>>
    ELSE <<FALSE, -10, <<Sig("red", "PE>40")>>>>

\* variant: a P/B of exactly 5 already counts as a premium
ValuationPB_inclusive(pb) ==
    IF ~Truthy(pb) THEN <<FALSE, 0, <<>>>>
    ELSE IF CmpRaises(pb) THEN <<TRUE, 0, <<>>>>
    ELSE IF ~PyGt(pb, 0) THEN <<FALSE, 0, <<>>>>
    ELSE IF PyLt(pb, 2) THEN <<FALSE, 10, <<Sig("green", "PB<2")>>>>
    ELSE IF ~PyLt(pb, 5) THEN <<FALSE, -5, <<Sig("red", "PB>5")>>>>
    ELSE <<FALSE, 0, <<>>>>

ValuationPB(pb) ==
    IF ~Truthy(pb) THEN <<FALSE, 0, <<>>>>
    ELSE IF CmpRaises(pb) THEN <<TRUE, 0, <<>>>>
    ELSE IF ~PyGt(pb, 0) THEN <<FALSE, 0, <<>>>>
    ELSE IF PyLt(pb, 2) THEN <<FALSE, 10, <<Sig("green", "PB<2")>>>>
    ELSE IF PyGt(pb, 5) THEN <<FALSE, -5, <<Sig("red", "PB>5")>>>>
    ELSE <<FALSE, 0, <<>>>>

\* dividend yield: guarded by isinstance(dv, (int, float)), so it never raises
ValuationDV(dv) ==
    IF Truthy(dv) /\ dv.t \in {"num", "nan"} /\ PyGt(dv, 2)
    THEN <<FALSE, 10, <<Sig("green", "dividend yield")>>>>
    ELSE <<FALSE, 0, <<>>>>

\* spot is None (absent) or a row with pe and pb; val is the valuation dict
analyze_valuation(spot, val) ==
    LET pe == IF spot.present THEN ValuationPE(spot.pe) ELSE <<FALSE, 0, <<>>>>
        pb == IF spot.present THEN ValuationPB(spot.pb) ELSE <<FALSE, 0, <<>>>>
        dv == ValuationDV(val.dv)
    IN  IF pe[1] \/ pb[1] THEN Raised
        ELSE Returned(BASELINE + pe[2] + pb[2] + dv[2], pe[3] \o pb[3] \o dv[3])

(***************************************************************************)
(* InvestmentAnalyzer.analyze_growth                                       *)
(***************************************************************************)
Digits == <<"0", "1", "2", "3", "4", "5", "6", "7", "8", "9">>
IsDigit(c) == \E i \in 1..10 : Digits[i] = c
DigitVal(c) == (CHOOSE i \in 1..10 : Digits[i] = c) - 1

\* str.replace('%', ''): removes every '%' of the string
RECURSIVE StripPercent(_)
StripPercent(s) ==
    IF s = <<>> THEN <<>>
    ELSE IF Head(s) = "%" THEN StripPercent(Tail(s))
    ELSE <<Head(s)>> \o StripPercent(Tail(s))

RECURSIVE DigitsValue(_, _)
DigitsValue(s, acc) ==
    IF s = <<>> THEN acc ELSE DigitsValue(Tail(s), 10 * acc + DigitVal(Head(s)))

\* float(s) for strings of digits with an optional sign: <<ok, value>>;
\* anything else raises ValueError (ok = FALSE)
ParseFloat(s) ==
    LET signed == s # <<>> /\ Head(s) \in {"-", "+"}
        body == IF signed THEN Tail(s) ELSE s
        ok == body # <<>> /\ \A i \in 1..Len(body) : IsDigit(body[i])
    IN  IF ~ok THEN <<FALSE, 0>>
        ELSE <<TRUE, IF signed /\ Head(s) = "-" THEN -DigitsValue(body, 0)
                     ELSE DigitsValue(body, 0)>>

RECURSIVE IntDigits(_)
IntDigits(i) ==
    IF i < 10 THEN <<Digits[i + 1]>> ELSE IntDigits(i \div 10) \o <<Digits[(i % 10) + 1]>>

\* str(x) of a table value
PyToStr(x) ==
    CASE x.t = "none" -> <<"N", "o", "n", "e">>
      [] x.t = "bool" -> <<"F", "a", "l", "s", "e">>
      [] x.t = "nan" -> <<"n", "a", "n">>
      [] x.t = "num" -> IF x.v < 0 THEN <<"-">> \o IntDigits(-x.v) ELSE IntDigits(x.v)
      [] x.t = "str" -> x.v

\* the guard `if g and str(g) not in ['False', 'nan']` followed by the
\* try: float(str(g).replace('%', '')); <<parsed, value>>
GrowthValue(g) ==
    IF ~Truthy(g) THEN <<FALSE, 0>>
    ELSE IF PyToStr(g) \in {<<"F", "a", "l", "s", "e">>, <<"n", "a", "n">>}
         THEN <<FALSE, 0>>
    ELSE ParseFloat(StripPercent(PyToStr(g)))

\* variant: a revenue growth of exactly 0 is left unscored
GrowthRevenue_zero_flat(g) ==
    LET p == GrowthValue(g)
    IN  IF ~p[1] THEN <<0, <<>>>>
        ELSE IF p[2] > 30 THEN <<25, <<Sig("green", "revenue high growth")>>>>
        ELSE IF p[2] > 15 THEN <<15, <<Sig("green", "revenue steady growth")>>>>
        ELSE IF p[2] > 0 THEN <<5, <<Sig("yellow", "revenue growth")>>>>
        ELSE IF p[2] < 0 THEN <<-10, <<Sig("red", "revenue negative growth")>>>>
        ELSE <<0, <<>>>>

GrowthRevenue(g) ==
    LET p == GrowthValue(g)
    IN  IF ~p[1] THEN <<0, <<>>>>
        ELSE IF p[2] > 30 THEN <<25, <<Sig("green", "revenue high growth")>>>>
        ELSE IF p[2] > 15 THEN <<15, <<Sig("green", "revenue steady growth")>>>>
        ELSE IF p[2] > 0 THEN <<5, <<Sig("yellow", "revenue growth")>>>>
        ELSE <<-10, <<Sig("red", "revenue negative growth")>>>>

GrowthProfit(g) ==
    LET p == GrowthValue(g)
    IN  IF ~p[1] THEN <<0, <<>>>>
        ELSE IF p[2] > 30 THEN <<25, <<Sig("green", "profit high growth")>>>>
        ELSE IF p[2] > 15 THEN <<15, <<Sig("green", "profit steady growth")>>>>
        ELSE IF p[2] < 0 THEN <<-15, <<Sig("red", "profit negative growth")>>>>
        ELSE <<0, <<>>>>

\* variant: both fields are parsed inside one try block, so a revenue field
\* that does not parse also skips the profit adjustment
analyze_growth_single_try(fina) ==
    IF ~fina.present \/ Len(fina.rows) = 0 THEN Returned(BASELINE, <<>>)
    ELSE LET latest == fina.rows[1]
             rev == GrowthRevenue(latest.rev)
             prof == GrowthProfit(latest.profit)
         IN  IF Truthy(latest.rev) /\ ~GrowthValue(latest.rev)[1]
             THEN Returned(BASELINE, <<>>)
             ELSE Returned(BASELINE + rev[1] + prof[1], rev[2] \o prof[2])

\* fina is None (absent) or a sequence of report rows, most recent first
analyze_growth(fina) ==
    IF ~fina.present \/ Len(fina.rows) = 0 THEN Returned(BASELINE, <<>>)
    ELSE LET latest == fina.rows[1]
             rev == GrowthRevenue(latest.rev)
             prof == GrowthProfit(latest.profit)
         IN  Returned(BASELINE + rev[1] + prof[1], rev[2] \o prof[2])

(***************************************************************************)
(* InvestmentAnalyzer.analyze_fund_flow                                    *)
(***************************************************************************)
\* variant: tail(n) keeps the whole table
TailN_all(s, n) == s

\* DataFrame.tail(n)
TailN(s, n) == IF Len(s) <= n THEN s ELSE SubSeq(s, Len(s) - n + 1, Len(s))

\* Series.sum(): NaN entries are skipped
RECURSIVE SumSkipNa(_)
SumSkipNa(s) ==
    IF s = <<>> THEN 0
    ELSE (IF Head(s).t = "num" THEN Head(s).v ELSE 0) + SumSkipNa(Tail(s))

\* variant: only an absent table yields the baseline; an empty one sums to 0
\* and is scored as a net outflow
analyze_fund_flow_unguarded(flow) ==
    IF ~flow.present THEN Returned(BASELINE, <<>>)
    ELSE IF \E i \in 1..Len(flow.vals) : flow.vals[i].t = "str" THEN Raised
    ELSE IF SumSkipNa(TailN(flow.vals, 10)) > 0
    THEN Returned(BASELINE + 15, <<Sig("green", "10-day net inflow")>>)
    ELSE Returned(BASELINE - 10, <<Sig("red", "10-day net outflow")>>)

\* flow is None (absent) or a table; hascol: it has the net-inflow column
analyze_fund_flow(flow) ==
    IF ~flow.present \/ Len(flow.vals) = 0 \/ ~flow.hascol
    THEN Returned(BASELINE, <<>>)
    ELSE LET recent == TailN(flow.vals, 10)
             total == SumSkipNa(recent)
             latest == recent[Len(recent)]
             recent_3 == SumSkipNa(TailN(recent, 3))
             trend == IF total > 0
                      THEN <<15, <<Sig("green", "10-day net inflow")>>>>
                      ELSE <<-10, <<Sig("red", "10-day net outflow")>>>>
             near == IF recent_3 > 0 /\ PyGt(latest, 0)
                     THEN <<10, <<Sig("green", "sustained inflow")>>>>
                     ELSE IF recent_3 < 0 /\ PyLt(latest, 0)
                     THEN <<-10, <<Sig("red", "sustained outflow")>>>>
                     ELSE <<0, <<>>>>
         IN  \* a string among the summed figures makes sum()/comparison raise
             IF \E i \in 1..Len(recent) : recent[i].t = "str" THEN Raised
             ELSE Returned(BASELINE + trend[1] + near[1], trend[2] \o near[2])

(***************************************************************************)
(* InvestmentAnalyzer.get_total_score / get_recommendation                 *)
(***************************************************************************)
\* the weights 0.3, 0.3, 0.2, 0.2 in tenths
WeightTenths(key) == IF key \in {"valuation", "growth"} THEN 3 ELSE 2

RECURSIVE SumWeighted(_, _)
SumWeighted(analysis, keys) ==
    IF keys = {} THEN 0
    ELSE LET key == CHOOSE x \in keys : TRUE
         IN  analysis[key].result.score * WeightTenths(key)
               + SumWeighted(analysis, keys \ {key})

\* int(x) truncates toward zero
TruncDiv(a, b) == IF a >= 0 THEN a \div b ELSE -((-a) \div b)

\* variant: rounds the weighted sum half up instead of truncating it
get_total_score_half_up(analysis) ==
    LET keys == {key \in Dims : analysis[key].present}
    IN  IF keys = {} THEN 50 ELSE TruncDiv(SumWeighted(analysis, keys) + 5, 10)

\* variant: divides by the weights of the dimensions that are present
get_total_score_renormalised(analysis) ==
    LET keys == {key \in Dims : analysis[key].present}
    IN  IF keys = {} THEN 50
        ELSE TruncDiv(SumWeighted(analysis, keys),
                      SumWeighted([key \in Dims |-> [result |-> [score |-> 1]]], keys))

\* analysis maps each dimension to [present, result].  Every score a scorer
\* produces is a multiple of 5; for such scores int() of the float sum of
\* score*weight equals the truncated exact sum (all combinations compared).
get_total_score(analysis) ==
    LET keys == {key \in Dims : analysis[key].present}
    IN  IF keys = {} THEN 50 ELSE TruncDiv(SumWeighted(analysis, keys), 10)

\* variant: the tier boundaries are exclusive
get_recommendation_exclusive(score) ==
    IF score > 80 THEN "strong-buy"
    ELSE IF score > 65 THEN "buy"
    ELSE IF score > 50 THEN "hold-cautious"
    ELSE IF score > 35 THEN "avoid"
    ELSE "strong-avoid"

get_recommendation(score) ==
    IF score >= 80 THEN "strong-buy"
    ELSE IF score >= 65 THEN "buy"
    ELSE IF score >= 50 THEN "hold-cautious"
    ELSE IF score >= 35 THEN "avoid"
    ELSE "strong-avoid"

(***************************************************************************)
(* calc_technical.py: the indicator engine.                                *)
(* A DataFrame is [col |-> f] where f maps each column name to a sequence  *)
(* of values, one per bar; DOMAIN f is df.columns.  The calc_* functions   *)
(* assign columns of the frame they are given (in place) and return it.    *)
(***************************************************************************)
Zero == Int2Num(0)
One == Int2Num(1)
Hundred == Int2Num(100)

Columns(df) == DOMAIN df.col
NRows(df) == IF Columns(df) = {} THEN 0 ELSE Len(df.col[CHOOSE c \in Columns(df) : TRUE])

\* df[name] = series
SetCol(df, name, series) ==
    [col |-> [c \in Columns(df) \cup {name} |->
                 IF c = name THEN series ELSE df.col[c]]]

RECURSIVE SumNum(_, _, _)
SumNum(s, lo, hi) ==
    IF lo > hi THEN Zero
    ELSE IF lo = hi THEN s[lo]
    ELSE Add(SumNum(s, lo, (lo + hi) \div 2), SumNum(s, ((lo + hi) \div 2) + 1, hi))

\* a rolling window ending at row i has min_periods = window: it is NaN
\* until p values are in the window and whenever it holds a NaN
WindowUndefined(s, p, i) == i < p \/ (\E j \in (i - p + 1)..i : IsNaN(s[j]))

\* variant: min_periods = 1, the mean of the bars available so far
RollingMean_partial(s, p) ==
    [i \in 1..Len(s) |->
        IF \E j \in (IF i < p THEN 1 ELSE i - p + 1)..i : IsNaN(s[j]) THEN NaN
        ELSE IF i < p THEN Div(SumNum(s, 1, i), Int2Num(i))
        ELSE Div(SumNum(s, i - p + 1, i), Int2Num(p))]

\* Series.rolling(window=p).mean()
RollingMean(s, p) ==
    [i \in 1..Len(s) |->
        IF WindowUndefined(s, p, i) THEN NaN
        ELSE Div(SumNum(s, i - p + 1, i), Int2Num(p))]

\* sample variance (ddof = 1) from the window's sum and sum of squares
VarOf(sumsq, sm, p) ==
    Div(Sub(sumsq, Div(Mul(sm, sm), Int2Num(p))), Int2Num(p - 1))

Squares(s) == [j \in 1..Len(s) |-> Mul(s[j], s[j])]

\* Series.rolling(window=p).std(), squared
RollingVar(s, p) ==
    [i \in 1..Len(s) |->
        IF WindowUndefined(s, p, i) \/ p < 2 THEN NaN
        ELSE VarOf(SumNum(Squares(s), i - p + 1, i), SumNum(s, i - p + 1, i), p)]

MinOf(a, m) == IF Lt(a, m) THEN a ELSE m
MaxOf(a, m) == IF Gt(a, m) THEN a ELSE m

RECURSIVE SeqMin(_, _, _)
SeqMin(s, lo, hi) == IF lo = hi THEN s[lo] ELSE MinOf(s[lo], SeqMin(s, lo + 1, hi))

RECURSIVE SeqMax(_, _, _)
SeqMax(s, lo, hi) == IF lo = hi THEN s[lo] ELSE MaxOf(s[lo], SeqMax(s, lo + 1, hi))

\* Series.rolling(window=p).min() / .max()
RollingMin(s, p) ==
    [i \in 1..Len(s) |->
        IF WindowUndefined(s, p, i) THEN NaN ELSE SeqMin(s, i - p + 1, i)]

RollingMax(s, p) ==
    [i \in 1..Len(s) |->
        IF WindowUndefined(s, p, i) THEN NaN ELSE SeqMax(s, i - p + 1, i)]

\* Series.ewm(alpha=alpha, adjust=False).mean(): the loop state is the
\* running average and the weight of the past.  The average is seeded by
\* the first non-NaN value; a NaN observation carries the average forward
\* and lets the old weight decay; an observation equal to the average
\* leaves it unchanged.
EwmState(weighted, old_wt) == [weighted |-> weighted, old_wt |-> old_wt]

EwmObserve(weighted, cur, ow, alpha) ==
    IF IsNaN(cur) THEN EwmState(weighted, ow)
    ELSE IF weighted # cur
    THEN EwmState(Div(Add(Mul(ow, weighted), Mul(alpha, cur)), Add(ow, alpha)), One)
    ELSE EwmState(weighted, One)

\* one iteration of the loop, on observation cur
EwmNext(st, cur, alpha) ==
    IF IsNaN(st.weighted) THEN EwmState(cur, st.old_wt)
    ELSE EwmObserve(st.weighted, cur, Mul(st.old_wt, Sub(One, alpha)), alpha)

EwmEmit(st) == [out |-> <<st.weighted>>, st |-> st]
EwmCat(left, right) == [out |-> left.out \o right.out, st |-> right.st]

\* the iterations lo..hi from loop state st: the outputs and the final state
RECURSIVE EwmRange(_, _, _, _, _)
EwmThen(vals, alpha, mid, hi, left) ==
    EwmCat(left, EwmRange(vals, alpha, mid + 1, hi, left.st))

EwmRange(vals, alpha, lo, hi, st) ==
    IF lo = hi THEN EwmEmit(EwmNext(st, vals[lo], alpha))
    ELSE EwmThen(vals, alpha, (lo + hi) \div 2, hi,
                 EwmRange(vals, alpha, lo, (lo + hi) \div 2, st))

EwmMean(vals, alpha) ==
    IF Len(vals) = 0 THEN <<>>
    ELSE EwmRange(vals, alpha, 1, Len(vals), EwmState(NaN, One)).out

\* span-based decay: alpha = 2 / (span + 1)
SpanAlpha(span) == Rat(2, span + 1)

SeqSub(a, b) == [i \in 1..Len(a) |-> Sub(a[i], b[i])]

\* a calc_* step either returns the frame or raises KeyError on a missing
\* input column (columns assigned before the raise stay in the frame)
Ok(frame) == [raised |-> FALSE, df |-> frame]
KeyError(frame) == [raised |-> TRUE, df |-> frame]

\* f'MA{period}', f'RSI{period}'
ColName(prefix, period) == prefix \o ToString(period)

RECURSIVE calc_ma_from(_, _, _)
calc_ma_from(df, periods, i) ==
    IF i > Len(periods) THEN df
    ELSE calc_ma_from(SetCol(df, ColName("MA", periods[i]),
                             RollingMean(df.col["close"], periods[i])),
                      periods, i + 1)

\* variant: averages the MA5 column once the frame has one
calc_ma_chained(df, periods) ==
    IF periods # <<>> /\ "close" \notin Columns(df) THEN KeyError(df)
    ELSE IF "MA5" \in Columns(df)
    THEN Ok(SetCol(calc_ma_from(SetCol(df, "close", df.col["MA5"]), periods, 1),
                   "close", df.col["close"]))
    ELSE Ok(calc_ma_from(df, periods, 1))

calc_ma(df, periods) ==
    IF periods # <<>> /\ "close" \notin Columns(df) THEN KeyError(df)
    ELSE Ok(calc_ma_from(df, periods, 1))

\* variant: the histogram is the plain difference
MacdHist_plain(dif, dea) ==
    [i \in 1..Len(dif) |-> Sub(dif[i], dea[i])]

\* df['MACD'] = 2 * (df['DIF'] - df['DEA'])
MacdHist(dif, dea) ==
    [i \in 1..Len(dif) |-> Mul(Int2Num(2), Sub(dif[i], dea[i]))]

MacdCols(df, dif, dea) ==
    SetCol(SetCol(SetCol(df, "DIF", dif), "DEA", dea), "MACD", MacdHist(dif, dea))

MacdFromDif(df, dif, signal) == MacdCols(df, dif, EwmMean(dif, SpanAlpha(signal)))

calc_macd(df, fast, slow, signal) ==
    IF "close" \notin Columns(df) THEN KeyError(df)
    ELSE Ok(MacdFromDif(df,
                        SeqSub(EwmMean(df.col["close"], SpanAlpha(fast)),
                               EwmMean(df.col["close"], SpanAlpha(slow))),
                        signal))

\* Series.diff(): NaN on the first row
Diff(s) == [i \in 1..Len(s) |-> IF i = 1 THEN NaN ELSE Sub(s[i], s[i - 1])]

\* delta.where(delta > 0, 0) and -delta.where(delta < 0, 0): a NaN delta
\* fails the condition and is replaced by 0
Gains(delta) == [i \in 1..Len(delta) |-> IF Gt(delta[i], Zero) THEN delta[i] ELSE Zero]
Losses(delta) == [i \in 1..Len(delta) |-> IF Lt(delta[i], Zero) THEN Neg(delta[i]) ELSE Zero]

\* variant: a zero mean loss is guarded and gives 0 instead of dividing
RsiOf_guarded(gain, loss) ==
    [i \in 1..Len(gain) |->
        IF loss[i] = Zero THEN Zero
        ELSE Sub(Hundred, Div(Hundred, Add(One, Div(gain[i], loss[i]))))]

\* rs = gain / loss;  100 - (100 / (1 + rs))
RsiOf(gain, loss) ==
    [i \in 1..Len(gain) |->
        Sub(Hundred, Div(Hundred, Add(One, Div(gain[i], loss[i]))))]

RsiSeries(delta, period) ==
    RsiOf(RollingMean(Gains(delta), period), RollingMean(Losses(delta), period))

RECURSIVE calc_rsi_from(_, _, _, _)
calc_rsi_from(df, delta, periods, i) ==
    IF i > Len(periods) THEN df
    ELSE calc_rsi_from(SetCol(df, ColName("RSI", periods[i]),
                              RsiSeries(delta, periods[i])),
                       delta, periods, i + 1)

calc_rsi(df, periods) ==
    IF "close" \notin Columns(df) THEN KeyError(df)
    ELSE Ok(calc_rsi_from(df, Diff(df.col["close"]), periods, 1))

\* rsv = (close - low_min) / (high_max - low_min) * 100
Rsv(close, low_min, high_max) ==
    [i \in 1..Len(close) |->
        Mul(Div(Sub(close[i], low_min[i]), Sub(high_max[i], low_min[i])), Hundred)]

\* df['J'] = 3 * df['K'] - 2 * df['D']
KdjJ(K, D) ==
    [i \in 1..Len(K) |-> Sub(Mul(Int2Num(3), K[i]), Mul(Int2Num(2), D[i]))]

KdjCols(df, K, D) ==
    SetCol(SetCol(SetCol(df, "K", K), "D", D), "J", KdjJ(K, D))

KdjFromK(df, K, m2) == KdjCols(df, K, EwmMean(K, Rat(1, m2)))

KdjFromRsv(df, rsv, m1, m2) == KdjFromK(df, EwmMean(rsv, Rat(1, m1)), m2)

calc_kdj(df, n, m1, m2) ==
    IF {"low", "high", "close"} \subseteq Columns(df)
    THEN Ok(KdjFromRsv(df,
                       Rsv(df.col["close"], RollingMin(df.col["low"], n),
                           RollingMax(df.col["high"], n)),
                       m1, m2))
    ELSE KeyError(df)

\* BOLL_UP / BOLL_DOWN = mid +/- std_dev * std.  The standard deviation is a
\* square root, so a band is kept exactly as (mid, (std_dev*std)^2, side)
Band(side, mid, var, std_dev) ==
    IF IsNaN(mid) \/ IsNaN(var) THEN [k |-> "nan", mid |-> NaN, sq |-> NaN]
    ELSE [k |-> side, mid |-> mid, sq |-> Mul(Int2Num(std_dev * std_dev), var)]

Bands(side, mid, var, std_dev) ==
    [i \in 1..Len(mid) |-> Band(side, mid[i], var[i], std_dev)]

BollCols(df, mid, var, std_dev) ==
    SetCol(SetCol(SetCol(df, "BOLL_MID", mid),
                  "BOLL_UP", Bands("up", mid, var, std_dev)),
           "BOLL_DOWN", Bands("down", mid, var, std_dev))

calc_boll(df, period, std_dev) ==
    IF "close" \notin Columns(df) THEN KeyError(df)
    ELSE Ok(BollCols(df, RollingMean(df.col["close"], period),
                     RollingVar(df.col["close"], period), std_dev))

\* df['volume'] / df['volume'].rolling(window=period).mean()
VolumeRatio(volume, mean) == [i \in 1..Len(volume) |-> Div(volume[i], mean[i])]

\* variant: the ratio is written over the volume column as well
calc_volume_ratio_in_place(df, period) ==
    IF "volume" \notin Columns(df) THEN KeyError(df)
    ELSE Ok(SetCol(SetCol(df, "volume_ratio",
                          VolumeRatio(df.col["volume"],
                                      RollingMean(df.col["volume"], period))),
                   "volume",
                   VolumeRatio(df.col["volume"],
                               RollingMean(df.col["volume"], period))))

calc_volume_ratio(df, period) ==
    IF "volume" \notin Columns(df) THEN KeyError(df)
    ELSE Ok(SetCol(df, "volume_ratio",
                   VolumeRatio(df.col["volume"], RollingMean(df.col["volume"], period))))

\* the default arguments of the calc_* functions
MA_PERIODS == <<5, 10, 20, 60>>
RSI_PERIODS == <<6, 12, 24>>

\* The six steps run in order on the frame; a step that raises ends the
\* call, and the steps before it have then already assigned their columns.
AfterBoll(r) == IF r.raised THEN r ELSE calc_volume_ratio(r.df, 5)
AfterKdj(r) == IF r.raised THEN r ELSE AfterBoll(calc_boll(r.df, 20, 2))
AfterRsi(r) == IF r.raised THEN r ELSE AfterKdj(calc_kdj(r.df, 9, 3, 3))
AfterMacd(r) == IF r.raised THEN r ELSE AfterRsi(calc_rsi(r.df, RSI_PERIODS))
AfterMa(r) == IF r.raised THEN r ELSE AfterMacd(calc_macd(r.df, 12, 26, 9))

calc_all_indicators(df) == AfterMa(calc_ma(df, MA_PERIODS))

(***************************************************************************)
(* calc_technical.py: analyze_signals                                      *)
(***************************************************************************)
\* close > BOLL_UP and close < BOLL_DOWN on exact bands:
\* x > mid + sqrt(sq)  iff  x - mid > 0 and (x - mid)^2 > sq
GtBand(x, band) ==
    /\ band.k # "nan"
    /\ ~IsNaN(x)
    /\ LET t == Sub(x, band.mid) IN Gt(t, Zero) /\ Gt(Mul(t, t), band.sq)

LtBand(x, band) ==
    /\ band.k # "nan"
    /\ ~IsNaN(x)
    /\ LET t == Sub(band.mid, x) IN Gt(t, Zero) /\ Gt(Mul(t, t), band.sq)

\* one entry of the signals dict: family name, leading emoji, description
Signal(name, mark, text) == [name |-> name, mark |-> mark, text |-> text]

\* df.iloc[-1] and df.iloc[-2] (the latest row again when there is one row)
RowLatest(df) == NRows(df)
RowPrev(df) == IF NRows(df) > 1 THEN NRows(df) - 1 ELSE NRows(df)

\* row[c]: the value on row r of column c
At(df, c, r) == df.col[c][r]

\* Each family yields <<raised, signals>>; a column read that is not in the
\* frame raises KeyError.
\* variant: the alignment rules are tried before the crossover rules
SignalsMA_alignment_first(df) ==
    LET l == RowLatest(df)
        p == RowPrev(df)
    IN  IF ~({"MA5", "MA20"} \subseteq Columns(df)) THEN <<FALSE, <<>>>>
        ELSE IF "close" \notin Columns(df) THEN <<TRUE, <<>>>>
        ELSE IF Gt(At(df, "close", l), At(df, "MA5", l))
                  /\ Gt(At(df, "MA5", l), At(df, "MA20", l))
             THEN <<FALSE, <<Signal("MA", "green", "bullish-alignment")>>>>
        ELSE IF Lt(At(df, "close", l), At(df, "MA5", l))
                  /\ Lt(At(df, "MA5", l), At(df, "MA20", l))
             THEN <<FALSE, <<Signal("MA", "red", "bearish-alignment")>>>>
        ELSE IF Gt(At(df, "MA5", l), At(df, "MA20", l))
                  /\ Le(At(df, "MA5", p), At(df, "MA20", p))
             THEN <<FALSE, <<Signal("MA", "green", "golden-cross")>>>>
        ELSE IF Lt(At(df, "MA5", l), At(df, "MA20", l))
                  /\ Ge(At(df, "MA5", p), At(df, "MA20", p))
             THEN <<FALSE, <<Signal("MA", "red", "death-cross")>>>>
        ELSE <<FALSE, <<Signal("MA", "white", "range")>>>>

SignalsMA(df) ==
    LET l == RowLatest(df)
        p == RowPrev(df)
    IN  IF ~({"MA5", "MA20"} \subseteq Columns(df)) THEN <<FALSE, <<>>>>
        ELSE IF Gt(At(df, "MA5", l), At(df, "MA20", l))
                  /\ Le(At(df, "MA5", p), At(df, "MA20", p))
             THEN <<FALSE, <<Signal("MA", "green", "golden-cross")>>>>
        ELSE IF Lt(At(df, "MA5", l), At(df, "MA20", l))
                  /\ Ge(At(df, "MA5", p), At(df, "MA20", p))
             THEN <<FALSE, <<Signal("MA", "red", "death-cross")>>>>
        ELSE IF "close" \notin Columns(df) THEN <<TRUE, <<>>>>
        ELSE IF Gt(At(df, "close", l), At(df, "MA5", l))
                  /\ Gt(At(df, "MA5", l), At(df, "MA20", l))
             THEN <<FALSE, <<Signal("MA", "green", "bullish-alignment")>>>>
        ELSE IF Lt(At(df, "close", l), At(df, "MA5", l))
                  /\ Lt(At(df, "MA5", l), At(df, "MA20", l))
             THEN <<FALSE, <<Signal("MA", "red", "bearish-alignment")>>>>
        ELSE <<FALSE, <<Signal("MA", "white", "range")>>>>

\* variant: a histogram of exactly 0 counts as bullish
SignalsMACD_zero_bullish(df) ==
    LET l == RowLatest(df)
        p == RowPrev(df)
    IN  IF ~({"DIF", "DEA"} \subseteq Columns(df)) THEN <<FALSE, <<>>>>
        ELSE IF Gt(At(df, "DIF", l), At(df, "DEA", l))
                  /\ Le(At(df, "DIF", p), At(df, "DEA", p))
             THEN <<FALSE, <<Signal("MACD", "green", "golden-cross")>>>>
        ELSE IF Lt(At(df, "DIF", l), At(df, "DEA", l))
                  /\ Ge(At(df, "DIF", p), At(df, "DEA", p))
             THEN <<FALSE, <<Signal("MACD", "red", "death-cross")>>>>
        ELSE IF "MACD" \notin Columns(df) THEN <<TRUE, <<>>>>
        ELSE IF Ge(At(df, "MACD", l), Zero)
             THEN <<FALSE, <<Signal("MACD", "green", "bullish")>>>>
        ELSE <<FALSE, <<Signal("MACD", "red", "bearish")>>>>

SignalsMACD(df) ==
    LET l == RowLatest(df)
        p == RowPrev(df)
    IN  IF ~({"DIF", "DEA"} \subseteq Columns(df)) THEN <<FALSE, <<>>>>
        ELSE IF Gt(At(df, "DIF", l), At(df, "DEA", l))
                  /\ Le(At(df, "DIF", p), At(df, "DEA", p))
             THEN <<FALSE, <<Signal("MACD", "green", "golden-cross")>>>>
        ELSE IF Lt(At(df, "DIF", l), At(df, "DEA", l))
                  /\ Ge(At(df, "DIF", p), At(df, "DEA", p))
             THEN <<FALSE, <<Signal("MACD", "red", "death-cross")>>>>
        ELSE IF "MACD" \notin Columns(df) THEN <<TRUE, <<>>>>
        ELSE IF Gt(At(df, "MACD", l), Zero)
             THEN <<FALSE, <<Signal("MACD", "green", "bullish")>>>>
        ELSE <<FALSE, <<Signal("MACD", "red", "bearish")>>>>

\* variant: 80 is already overbought and 20 already oversold
SignalsRSI_inclusive(df) ==
    LET l == RowLatest(df)
    IN  IF "RSI6" \notin Columns(df) THEN <<FALSE, <<>>>>
        ELSE LET rsi == At(df, "RSI6", l)
             IN  IF Ge(rsi, Int2Num(80))
                 THEN <<FALSE, <<Signal("RSI", "red", "overbought")>>>>
                 ELSE IF Le(rsi, Int2Num(20))
                 THEN <<FALSE, <<Signal("RSI", "green", "oversold")>>>>
                 ELSE IF Gt(rsi, Int2Num(50))
                 THEN <<FALSE, <<Signal("RSI", "green", "bullish-lean")>>>>
                 ELSE <<FALSE, <<Signal("RSI", "red", "bearish-lean")>>>>

SignalsRSI(df) ==
    LET l == RowLatest(df)
    IN  IF "RSI6" \notin Columns(df) THEN <<FALSE, <<>>>>
        ELSE LET rsi == At(df, "RSI6", l)
             IN  IF Gt(rsi, Int2Num(80))
                 THEN <<FALSE, <<Signal("RSI", "red", "overbought")>>>>
                 ELSE IF Lt(rsi, Int2Num(20))
                 THEN <<FALSE, <<Signal("RSI", "green", "oversold")>>>>
                 ELSE IF Gt(rsi, Int2Num(50))
                 THEN <<FALSE, <<Signal("RSI", "green", "bullish-lean")>>>>
                 ELSE <<FALSE, <<Signal("RSI", "red", "bearish-lean")>>>>

\* variant: the crossover rules take K = 20 as low and K = 80 as high
SignalsKDJ_inclusive(df) ==
    LET l == RowLatest(df)
        p == RowPrev(df)
    IN  IF ~({"K", "D"} \subseteq Columns(df)) THEN <<FALSE, <<>>>>
        ELSE IF Gt(At(df, "K", l), At(df, "D", l))
                  /\ Le(At(df, "K", p), At(df, "D", p))
                  /\ Le(At(df, "K", l), Int2Num(20))
             THEN <<FALSE, <<Signal("KDJ", "green", "low-golden-cross")>>>>
        ELSE IF Lt(At(df, "K", l), At(df, "D", l))
                  /\ Ge(At(df, "K", p), At(df, "D", p))
                  /\ Ge(At(df, "K", l), Int2Num(80))
             THEN <<FALSE, <<Signal("KDJ", "red", "high-death-cross")>>>>
        ELSE IF "J" \notin Columns(df) THEN <<TRUE, <<>>>>
        ELSE IF Gt(At(df, "J", l), Hundred)
             THEN <<FALSE, <<Signal("KDJ", "red", "overbought")>>>>
        ELSE IF Lt(At(df, "J", l), Zero)
             THEN <<FALSE, <<Signal("KDJ", "green", "oversold")>>>>
        ELSE <<FALSE, <<Signal("KDJ", "white", "neutral")>>>>

\* variant: the crossover rules do not look at the level of K
SignalsKDJ_any_level(df) ==
    LET l == RowLatest(df)
        p == RowPrev(df)
    IN  IF ~({"K", "D"} \subseteq Columns(df)) THEN <<FALSE, <<>>>>
        ELSE IF Gt(At(df, "K", l), At(df, "D", l))
                  /\ Le(At(df, "K", p), At(df, "D", p))
             THEN <<FALSE, <<Signal("KDJ", "green", "low-golden-cross")>>>>
        ELSE IF Lt(At(df, "K", l), At(df, "D", l))
                  /\ Ge(At(df, "K", p), At(df, "D", p))
             THEN <<FALSE, <<Signal("KDJ", "red", "high-death-cross")>>>>
        ELSE IF "J" \notin Columns(df) THEN <<TRUE, <<>>>>
        ELSE IF Gt(At(df, "J", l), Hundred)
             THEN <<FALSE, <<Signal("KDJ", "red", "overbought")>>>>
        ELSE IF Lt(At(df, "J", l), Zero)
             THEN <<FALSE, <<Signal("KDJ", "green", "oversold")>>>>
        ELSE <<FALSE, <<Signal("KDJ", "white", "neutral")>>>>

SignalsKDJ(df) ==
    LET l == RowLatest(df)
        p == RowPrev(df)
    IN  IF ~({"K", "D"} \subseteq Columns(df)) THEN <<FALSE, <<>>>>
        ELSE IF Gt(At(df, "K", l), At(df, "D", l))
                  /\ Le(At(df, "K", p), At(df, "D", p))
                  /\ Lt(At(df, "K", l), Int2Num(20))
             THEN <<FALSE, <<Signal("KDJ", "green", "low-golden-cross")>>>>
        ELSE IF Lt(At(df, "K", l), At(df, "D", l))
                  /\ Ge(At(df, "K", p), At(df, "D", p))
                  /\ Gt(At(df, "K", l), Int2Num(80))
             THEN <<FALSE, <<Signal("KDJ", "red", "high-death-cross")>>>>
        ELSE IF "J" \notin Columns(df) THEN <<TRUE, <<>>>>
        ELSE IF Gt(At(df, "J", l), Hundred)
             THEN <<FALSE, <<Signal("KDJ", "red", "overbought")>>>>
        ELSE IF Lt(At(df, "J", l), Zero)
             THEN <<FALSE, <<Signal("KDJ", "green", "oversold")>>>>
        ELSE <<FALSE, <<Signal("KDJ", "white", "neutral")>>>>

\* width = (BOLL_UP - BOLL_DOWN) / BOLL_MID * 100.  The two bands of a row
\* lie sqrt(up.sq) above and below the same mid, so width * width is
\* 4 * up.sq * 100 * 100 / (mid * mid); the width is kept as that square and
\* its sign, and is NaN when the bands are (division by 0 gives inf or NaN).
BollWidth(up, mid) ==
    IF up.k = "nan" \/ IsNaN(mid) THEN [k |-> "nan", neg |-> FALSE, sq |-> NaN]
    ELSE [k |-> "width", neg |-> Lt(mid, Zero),
          sq |-> Div(Mul(Int2Num(40000), up.sq), Mul(mid, mid))]

\* the in-channel entry: its description carries the computed width
SignalWidth(name, mark, text, width) ==
    [name |-> name, mark |-> mark, text |-> text, width |-> width]

\* variant: a close on a band already counts as a breach
SignalsBOLL_inclusive(df) ==
    LET l == RowLatest(df)
        on(x, band) ==
            /\ band.k # "nan"
            /\ ~IsNaN(x)
            /\ LET t == Sub(x, band.mid) IN Mul(t, t) = band.sq
    IN  IF "BOLL_UP" \notin Columns(df) THEN <<FALSE, <<>>>>
        ELSE IF "close" \notin Columns(df) THEN <<TRUE, <<>>>>
        ELSE IF GtBand(At(df, "close", l), At(df, "BOLL_UP", l))
                  \/ (on(At(df, "close", l), At(df, "BOLL_UP", l))
                        /\ Ge(At(df, "close", l), At(df, "BOLL_UP", l).mid))
             THEN <<FALSE, <<Signal("BOLL", "red", "upper-breach")>>>>
        ELSE IF "BOLL_DOWN" \notin Columns(df) THEN <<TRUE, <<>>>>
        ELSE IF LtBand(At(df, "close", l), At(df, "BOLL_DOWN", l))
                  \/ (on(At(df, "close", l), At(df, "BOLL_DOWN", l))
                        /\ Le(At(df, "close", l), At(df, "BOLL_DOWN", l).mid))
             THEN <<FALSE, <<Signal("BOLL", "green", "lower-breach")>>>>
        ELSE IF "BOLL_MID" \notin Columns(df) THEN <<TRUE, <<>>>>
        ELSE <<FALSE, <<SignalWidth("BOLL", "white", "in-channel",
                                   BollWidth(At(df, "BOLL_UP", l),
                                             At(df, "BOLL_MID", l)))>>>>

SignalsBOLL(df) ==
    LET l == RowLatest(df)
    IN  IF "BOLL_UP" \notin Columns(df) THEN <<FALSE, <<>>>>
        ELSE IF "close" \notin Columns(df) THEN <<TRUE, <<>>>>
        ELSE IF GtBand(At(df, "close", l), At(df, "BOLL_UP", l))
             THEN <<FALSE, <<Signal("BOLL", "red", "upper-breach")>>>>
        ELSE IF "BOLL_DOWN" \notin Columns(df) THEN <<TRUE, <<>>>>
        ELSE IF LtBand(At(df, "close", l), At(df, "BOLL_DOWN", l))
             THEN <<FALSE, <<Signal("BOLL", "green", "lower-breach")>>>>
        ELSE IF "BOLL_MID" \notin Columns(df) THEN <<TRUE, <<>>>>
        ELSE <<FALSE, <<SignalWidth("BOLL", "white", "in-channel",
                                   BollWidth(At(df, "BOLL_UP", l),
                                             At(df, "BOLL_MID", l)))>>>>

\* variant: the volume ratio is classified as a sixth family
SignalsJoin_with_volume(ma, macd, rsi, kdj, boll) ==
    IF ma[1] \/ macd[1] \/ rsi[1] \/ kdj[1] \/ boll[1]
    THEN [raised |-> TRUE, signals |-> <<>>]
    ELSE [raised |-> FALSE,
          signals |-> ma[2] \o macd[2] \o rsi[2] \o kdj[2] \o boll[2]
                        \o <<Signal("VOL", "green", "heavy volume")>>]

\* the signals dict in insertion order, or an exception (IndexError on an
\* empty frame, KeyError on a missing column)
SignalsJoin(ma, macd, rsi, kdj, boll) ==
    IF ma[1] \/ macd[1] \/ rsi[1] \/ kdj[1] \/ boll[1]
    THEN [raised |-> TRUE, signals |-> <<>>]
    ELSE [raised |-> FALSE,
          signals |-> ma[2] \o macd[2] \o rsi[2] \o kdj[2] \o boll[2]]

analyze_signals(df) ==
    IF NRows(df) = 0 THEN [raised |-> TRUE, signals |-> <<>>]
    ELSE SignalsJoin(SignalsMA(df), SignalsMACD(df), SignalsRSI(df),
                     SignalsKDJ(df), SignalsBOLL(df))

(***************************************************************************)
(* InvestmentAnalyzer.analyze_technical                                    *)
(***************************************************************************)
MIN_BARS == 60

RECURSIVE TechnicalScore(_, _)
TechnicalScore(signals, i) ==
    IF i > Len(signals) THEN 0
    ELSE (IF signals[i].mark = "green" THEN 5
          ELSE IF signals[i].mark = "red" THEN -5 ELSE 0)
         + TechnicalScore(signals, i + 1)

\* f"{name}: {signal}"
TechnicalLines(signals) ==
    [i \in 1..Len(signals) |->
        Sig(signals[i].mark, signals[i].name \o ": " \o signals[i].text)]

\* Yields the scorer's outcome, the frame as the engine left it (it assigns
\* columns in place), and the signals dict (ran = FALSE when analyze_signals
\* was not called).
TechnicalOutcome(out, frame, ran, signals) ==
    [out |-> out, kline |-> [present |-> TRUE, df |-> frame],
     sig |-> [ran |-> ran, signals |-> signals]]

\* variant: a signal moves the score by 10 instead of 5
TechnicalFromSignals_doubled(frame, sg) ==
    IF sg.raised THEN TechnicalOutcome(Raised, frame, TRUE, <<>>)
    ELSE TechnicalOutcome(
             Returned(BASELINE + 2 * TechnicalScore(sg.signals, 1),
                      TechnicalLines(sg.signals)),
             frame, TRUE, sg.signals)

TechnicalFromSignals(frame, sg) ==
    IF sg.raised THEN TechnicalOutcome(Raised, frame, TRUE, <<>>)
    ELSE TechnicalOutcome(
             Returned(BASELINE + TechnicalScore(sg.signals, 1),
                      TechnicalLines(sg.signals)),
             frame, TRUE, sg.signals)

TechnicalFromIndicators(ind) ==
    IF ind.raised THEN TechnicalOutcome(Raised, ind.df, FALSE, <<>>)
    ELSE TechnicalFromSignals(ind.df, analyze_signals(ind.df))

\* variant: the engine already runs on MIN_BARS bars
analyze_technical_from_min(kline) ==
    IF kline.present /\ NRows(kline.df) >= MIN_BARS
    THEN TechnicalFromIndicators(calc_all_indicators(kline.df))
    ELSE [out |-> Returned(BASELINE, <<>>), kline |-> kline,
          sig |-> [ran |-> FALSE, signals |-> <<>>]]

\* kline is None (absent) or a frame
analyze_technical(kline) ==
    IF kline.present /\ NRows(kline.df) > MIN_BARS
    THEN TechnicalFromIndicators(calc_all_indicators(kline.df))
    ELSE [out |-> Returned(BASELINE, <<>>), kline |-> kline,
          sig |-> [ran |-> FALSE, signals |-> <<>>]]

(***************************************************************************)
(* State.                                                                  *)
(*  pc             position in the operation being run                     *)
(*  data           InvestmentAnalyzer.data (the fetched tables)            *)
(*  analysis       InvestmentAnalyzer.analysis (dimension -> result)       *)
(*  sig            the signals dict of the last analyze_signals call       *)
(*  total_score    value returned by get_total_score                       *)
(*  recommendation value returned by get_recommendation                    *)
(*  df             the frame calc_technical.main works on                  *)
(***************************************************************************)
VARIABLES pc, data, analysis, sig, total_score, recommendation, df

(***************************************************************************)
(*  clock          what datetime.now() reads, in ticks                     *)
(*  cache          the rows of the SQLite table `cache`, by key            *)
(*  ret            the last CacheManager call and what it returned         *)
(*  written        history: the last set() call made for each key          *)
(*  args           the command-line switch scheduler.main was given        *)
(*  config         the loaded configuration                                *)
(*  attempts       history: how each watchlist stock handled so far by     *)
(*                 generate_report went                                    *)
(*  all_reports    the list generate_report collects                       *)
(*  files          the report directory: file name -> content              *)
(*  target_time    run_scheduler's target_time                             *)
(*  wait_seconds   run_scheduler's wait_seconds                            *)
(*  runs           history: the daily-task runs started by run_scheduler   *)
(***************************************************************************)
VARIABLES clock, cache, ret, written,
          args, config, attempts, all_reports, files, target_time,
          wait_seconds, runs

cacheVars == <<cache, ret, written>>
schedulerVars ==
    <<args, config, attempts, all_reports, files, target_time, wait_seconds, runs>>

vars == <<pc, data, analysis, sig, total_score, recommendation, df,
          clock, cacheVars, schedulerVars>>

\* ---- cache and scheduler values ----------------------------------------
CacheKeys == {"k1", "k2"}

\* no row under the key
NoRow == [present |-> FALSE, value |-> PyNone, expire_at |-> 0]
NoCall == [op |-> "none", key |-> "", value |-> PyNone]
NeverSet == [state |-> "never", value |-> PyNone, expire_at |-> 0]

\* an analyzer run uses neither the cache nor the scheduler
NoCache ==
    /\ clock = 0
    /\ cache = [k \in CacheKeys |-> NoRow]
    /\ ret = NoCall
    /\ written = [k \in CacheKeys |-> NeverSet]

NoScheduler ==
    /\ args = "none"
    /\ config = [enabled |-> FALSE, daily_fetch_time |-> 0, watchlist |-> <<>>]
    /\ attempts = <<>>
    /\ all_reports = <<>>
    /\ files = <<>>
    /\ target_time = 0
    /\ wait_seconds = 0
    /\ runs = <<>>

\* ---- fetched values ----------------------------------------------------
BaseColumns == {"date", "open", "high", "low", "close", "volume"}

\* a daily bar with close c and high/low c +/- s
Bar(c, s) == [open |-> c, high |-> c + s, low |-> c - s, close |-> c, volume |-> 100]

\* n bars: copies of b followed by tail
Series(n, b, tail) ==
    [i \in 1..n |-> IF i <= n - Len(tail) THEN b ELSE tail[i - (n - Len(tail))]]

\* the DataFrame holding bars, with the given columns
Frame(bars, cols) ==
    [col |-> [c \in cols |->
                 [i \in 1..Len(bars) |->
                     IF c = "date" THEN Int2Num(i) ELSE Int2Num(bars[i][c])]]]

\* the frame with the given columns and rows
RowsFrame(cols, rows) ==
    [col |-> [c \in cols |-> [i \in 1..Len(rows) |-> rows[i][c]]]]

EmptyFrame == Frame(<<>>, BaseColumns)

NoSpot == [present |-> FALSE, pe |-> PyNone, pb |-> PyNone]
Spot(pe, pb) == [present |-> TRUE, pe |-> pe, pb |-> pb]
NoValuation == [dv |-> PyNone]
NoFlow == [present |-> FALSE, hascol |-> FALSE, vals |-> <<>>]
Flow(vals) == [present |-> TRUE, hascol |-> TRUE, vals |-> vals]
NoFina == [present |-> FALSE, rows |-> <<>>]
Fina(rows) == [present |-> TRUE, rows |-> rows]
NoKline == [present |-> FALSE, df |-> EmptyFrame]
Kline(frame) == [present |-> TRUE, df |-> frame]

\* self.data = {} : every table absent
NoData ==
    [spot |-> NoSpot, valuation |-> NoValuation, fund_flow |-> NoFlow,
     financial |-> NoFina, kline |-> NoKline]

\* self.analysis = {}
NoResult == [present |-> FALSE, result |-> [score |-> 0, signals |-> <<>>]]
Result(r) == [present |-> TRUE, result |-> r]
NoAnalysis == [key \in Dims |-> NoResult]

NoSig == [ran |-> FALSE, signals |-> <<>>]
Unset == [set |-> FALSE, v |-> 0]
Value(v) == [set |-> TRUE, v |-> v]

\* ---- what the external fetches may return ------------------------------
\* series lengths run from MIN_BARS - 1 to MIN_BARS + ExtraBars
ExtraBars == 1

\* bars after the steady part of a series: none, one or two bars moving up
\* or down (with or without an intraday range)
TailBars == {Bar(c, s) : c \in {8, 12}, s \in {0, 1}}
Tails == {<<>>} \cup {<<b>> : b \in TailBars}
            \cup {<<a, b>> : a \in {Bar(8, 1), Bar(12, 1)}, b \in TailBars}

KlineFrames ==
    {Frame(Series(n, b, t), BaseColumns) :
        n \in (MIN_BARS - 1)..(MIN_BARS + ExtraBars),
        b \in {Bar(10, 0), Bar(10, 1)}, t \in Tails}

\* tables an analysis run may be given for its price series
RunKlines ==
    {NoKline, Kline(EmptyFrame)}
      \cup {Kline(Frame(Series(n, Bar(10, 1), t), BaseColumns)) :
              n \in MIN_BARS..(MIN_BARS + ExtraBars),
              t \in {<<>>, <<Bar(12, 1)>>, <<Bar(8, 1), Bar(8, 0)>>}}
      \cup {Kline(Frame(Series(MIN_BARS + ExtraBars, Bar(10, 0), <<>>), cols)) :
              cols \in {BaseColumns, BaseColumns \ {"close"},
                        BaseColumns \ {"volume"}}}

RunSpots ==
    {NoSpot, Spot(PyNum(10), PyNum(1)), Spot(PyNum(50), PyNum(6)),
     Spot(PyStr(<<"-">>), PyNum(3))}

RunValuations == {NoValuation, [dv |-> PyNum(3)]}

RunFlows ==
    {NoFlow, Flow(<<>>), Flow(<<PyNum(-5), PyStr(<<"-">>)>>)}

RunFinas ==
    {NoFina, Fina(<<>>),
     Fina(<<[rev |-> PyStr(<<"x">>), profit |-> PyStr(<<"2", "0", "%">>)]>>)}

(***************************************************************************)
(* InvestmentAnalyzer.generate_report, step by step.  An exception leaving *)
(* a scorer ends the run (pc = "raised"): generate_report catches nothing. *)
(***************************************************************************)
Init ==
    /\ pc = "new"
    /\ data = NoData
    /\ analysis = NoAnalysis
    /\ sig = NoSig
    /\ total_score = Unset
    /\ recommendation = "unset"
    /\ NoCache
    /\ NoScheduler
    /\ df = EmptyFrame

\* fetch_data: every fetch is wrapped in try/except, so a failed fetch
\* leaves its table absent
FetchData ==
    /\ pc = "new"
    /\ \E s \in RunSpots, v \in RunValuations, f \in RunFlows,
          g \in RunFinas, k \in RunKlines :
          data' = [spot |-> s, valuation |-> v, fund_flow |-> f,
                   financial |-> g, kline |-> k]
    /\ pc' = "fetched"
    /\ UNCHANGED <<analysis, sig, total_score, recommendation, df, clock, cacheVars, schedulerVars>>

\* a scorer's result is stored under its key unless it raised
Store(key, out, next) ==
    IF out.raised
    THEN pc' = "raised" /\ UNCHANGED analysis
    ELSE pc' = next /\ analysis' = [analysis EXCEPT ![key] = Result(out.result)]

AnalyzeValuation ==
    /\ pc = "fetched"
    /\ Store("valuation", analyze_valuation(data.spot, data.valuation), "valuation")
    /\ UNCHANGED <<data, sig, total_score, recommendation, df, clock, cacheVars, schedulerVars>>

AnalyzeGrowth ==
    /\ pc = "valuation"
    /\ Store("growth", analyze_growth(data.financial), "growth")
    /\ UNCHANGED <<data, sig, total_score, recommendation, df, clock, cacheVars, schedulerVars>>

AnalyzeFundFlow ==
    /\ pc = "growth"
    /\ Store("fund_flow", analyze_fund_flow(data.fund_flow), "fund_flow")
    /\ UNCHANGED <<data, sig, total_score, recommendation, df, clock, cacheVars, schedulerVars>>

AnalyzeTechnical ==
    /\ pc = "fund_flow"
    /\ \E t \in {analyze_technical(data.kline)} :
          /\ Store("technical", t.out, "technical")
          /\ data' = [data EXCEPT !.kline = t.kline]
          /\ sig' = t.sig
    /\ UNCHANGED <<total_score, recommendation, df, clock, cacheVars, schedulerVars>>

GetTotalScore ==
    /\ pc = "technical"
    /\ total_score' = Value(get_total_score(analysis))
    /\ pc' = "scored"
    /\ UNCHANGED <<data, analysis, sig, recommendation, df, clock, cacheVars, schedulerVars>>

\* get_recommendation(total_score): the last step of generate_report
\* (pc = "scored"), or a call of the method on a score of the caller's
\* (pc = "recommend")
GetRecommendation ==
    /\ pc \in {"scored", "recommend"}
    /\ recommendation' = get_recommendation(total_score.v)
    /\ pc' = IF pc = "scored" THEN "done" ELSE "recommended"
    /\ UNCHANGED <<data, analysis, sig, total_score, df, clock, cacheVars, schedulerVars>>

Next ==
    \/ FetchData
    \/ AnalyzeValuation
    \/ AnalyzeGrowth
    \/ AnalyzeFundFlow
    \/ AnalyzeTechnical
    \/ GetTotalScore
    \/ GetRecommendation

Spec == Init /\ [][Next]_vars


(***************************************************************************)
(* The composite score and the recommendation on their own: the analysis   *)
(* dict holds any subset of the four dimensions, each with a result one of *)
(* the scorers produces, and get_total_score / get_recommendation are      *)
(* applied to it; get_recommendation is also applied to every score of a   *)
(* range.                                                                  *)
(***************************************************************************)
\* scores handed to get_recommendation: 0..MaxScore
MaxScore == 100

ScoreSpots ==
    {NoSpot} \cup {Spot(pe, pb) :
                     pe \in {PyNone, PyNum(10), PyNum(20), PyNum(50)},
                     pb \in {PyNone, PyNum(1), PyNum(6)}}

ScoreFinas ==
    {NoFina} \cup
    {Fina(<<[rev |-> rev, profit |-> profit]>>) :
        rev \in {PyFalse, PyStr(<<"3", "5", "%">>), PyStr(<<"5", "%">>),
                 PyStr(<<"-", "5", "%">>)},
        profit \in {PyFalse, PyStr(<<"3", "5", "%">>), PyStr(<<"2", "0", "%">>),
                    PyStr(<<"-", "5", "%">>)}}

ScoreFlows ==
    {NoFlow, Flow(<<PyNum(2), PyNum(-1), PyNum(3)>>),
     Flow(<<PyNum(-5), PyNum(1), PyNum(1)>>), Flow(<<PyNum(-5), PyNum(-1)>>),
     Flow(<<PyNum(5), PyNum(-1)>>)}

\* what a scorer may have stored under its key
Stored(outs) == {Result(o.result) : o \in {x \in outs : ~x.raised}}

ValuationResults ==
    Stored({analyze_valuation(s, v) : s \in ScoreSpots, v \in RunValuations})
GrowthResults == Stored({analyze_growth(g) : g \in ScoreFinas})
FundFlowResults == Stored({analyze_fund_flow(f) : f \in ScoreFlows})
\* the last two rows of an engine output on which every family reads
\* bullish, or every family reads bearish (columns as the engine names them)
OneSidedRows(side) ==
    IF side = "bullish"
    THEN <<[close |-> Int2Num(10), MA5 |-> Int2Num(1), MA20 |-> Int2Num(2),
            DIF |-> Int2Num(1), DEA |-> Int2Num(2), MACD |-> Int2Num(-2),
            RSI6 |-> Int2Num(30), K |-> Int2Num(15), D |-> Int2Num(20),
            J |-> Int2Num(5), BOLL_MID |-> Int2Num(10),
            BOLL_UP |-> Band("up", Int2Num(10), Int2Num(1), 2),
            BOLL_DOWN |-> Band("down", Int2Num(10), Int2Num(1), 2)],
           [close |-> Int2Num(6), MA5 |-> Int2Num(3), MA20 |-> Int2Num(2),
            DIF |-> Int2Num(3), DEA |-> Int2Num(2), MACD |-> Int2Num(2),
            RSI6 |-> Int2Num(10), K |-> Int2Num(15), D |-> Int2Num(10),
            J |-> Int2Num(25), BOLL_MID |-> Int2Num(10),
            BOLL_UP |-> Band("up", Int2Num(10), Int2Num(1), 2),
            BOLL_DOWN |-> Band("down", Int2Num(10), Int2Num(1), 2)]>>
    ELSE <<[close |-> Int2Num(10), MA5 |-> Int2Num(3), MA20 |-> Int2Num(2),
            DIF |-> Int2Num(3), DEA |-> Int2Num(2), MACD |-> Int2Num(2),
            RSI6 |-> Int2Num(70), K |-> Int2Num(85), D |-> Int2Num(82),
            J |-> Int2Num(91), BOLL_MID |-> Int2Num(10),
            BOLL_UP |-> Band("up", Int2Num(10), Int2Num(1), 2),
            BOLL_DOWN |-> Band("down", Int2Num(10), Int2Num(1), 2)],
           [close |-> Int2Num(14), MA5 |-> Int2Num(1), MA20 |-> Int2Num(2),
            DIF |-> Int2Num(1), DEA |-> Int2Num(2), MACD |-> Int2Num(-2),
            RSI6 |-> Int2Num(90), K |-> Int2Num(85), D |-> Int2Num(90),
            J |-> Int2Num(75), BOLL_MID |-> Int2Num(10),
            BOLL_UP |-> Band("up", Int2Num(10), Int2Num(1), 2),
            BOLL_DOWN |-> Band("down", Int2Num(10), Int2Num(1), 2)]>>

OneSidedFrames ==
    {RowsFrame(DOMAIN OneSidedRows(side)[1], OneSidedRows(side)) :
        side \in {"bullish", "bearish"}}

\* what analyze_technical stores for the model's price series, and what its
\* loop stores when the signals of a one-sided engine output reach it
TechnicalResults ==
    Stored({analyze_technical(k).out : k \in RunKlines})
      \cup Stored({TechnicalFromSignals(f, analyze_signals(f)).out : f \in OneSidedFrames})

AnalysisDicts ==
    {[valuation |-> a, growth |-> b, fund_flow |-> c, technical |-> d] :
        a \in {NoResult} \cup ValuationResults,
        b \in {NoResult} \cup GrowthResults,
        c \in {NoResult} \cup FundFlowResults,
        d \in {NoResult} \cup TechnicalResults}

InitScore ==
    /\ data = NoData
    /\ sig = NoSig
    /\ recommendation = "unset"
    /\ NoCache
    /\ NoScheduler
    /\ df = EmptyFrame
    /\ \/ pc = "technical" /\ analysis \in AnalysisDicts /\ total_score = Unset
       \/ /\ pc = "recommend"
          /\ analysis = NoAnalysis
          /\ total_score \in {Value(sc) : sc \in 0..MaxScore}

NextScore ==
    \/ GetTotalScore
    \/ GetRecommendation

SpecScore == InitScore /\ [][NextScore]_vars

(***************************************************************************)
(* analyze_technical on its own: a run in which only the price series was  *)
(* fetched, from the point where the first three scorers have returned.    *)
(***************************************************************************)
TechKlines == {NoKline, Kline(EmptyFrame)} \cup {Kline(f) : f \in KlineFrames}

InitTech ==
    /\ pc = "fund_flow"
    /\ data \in {[NoData EXCEPT !.kline = k] : k \in TechKlines}
    /\ analysis = [NoAnalysis EXCEPT
                     !["valuation"] = Result(analyze_valuation(NoSpot, NoValuation).result),
                     !["growth"] = Result(analyze_growth(NoFina).result),
                     !["fund_flow"] = Result(analyze_fund_flow(NoFlow).result)]
    /\ sig = NoSig
    /\ total_score = Unset
    /\ recommendation = "unset"
    /\ NoCache
    /\ NoScheduler
    /\ df = EmptyFrame

NextTech ==
    \/ AnalyzeTechnical
    \/ GetTotalScore
    \/ GetRecommendation

SpecTech == InitTech /\ [][NextTech]_vars

(***************************************************************************)
(* analyze_signals on its own, as calc_technical.main calls it: df is a    *)
(* frame of one or two rows that carries the columns of one family.        *)
(***************************************************************************)
\* indicator values on a row: undefined, or 1..MaxLevel
MaxLevel == 3
Levels == {NaN} \cup {Int2Num(i) : i \in 1..MaxLevel}

MaRows == {[close |-> c, MA5 |-> a, MA20 |-> b] : c, a, b \in Levels}
MaFrames ==
    {RowsFrame({"close", "MA5", "MA20"}, <<r>>) : r \in MaRows}
      \cup {RowsFrame({"close", "MA5", "MA20"}, <<q, r>>) :
              q \in {x \in MaRows : x.close = Int2Num(2)}, r \in MaRows}

\* a row of calc_kdj: J = 3K - 2D
KdjRow(k, d) ==
    [K |-> Int2Num(k), D |-> Int2Num(d), J |-> Int2Num(3 * k - 2 * d)]
KdjRows == {KdjRow(k, d) : k \in {15, 20, 25, 80, 85}, d \in {10, 20, 22, 82, 90}}
KdjFrames ==
    {RowsFrame({"K", "D", "J"}, <<r>>) : r \in KdjRows}
      \cup {RowsFrame({"K", "D", "J"}, <<q, r>>) : q, r \in KdjRows}

\* a row of calc_macd: MACD = 2 * (DIF - DEA)
MacdRow(dif, dea) ==
    [DIF |-> dif, DEA |-> dea, MACD |-> MacdHist(<<dif>>, <<dea>>)[1]]
MacdRows == {MacdRow(dif, dea) : dif, dea \in Levels}
MacdFrames ==
    {RowsFrame({"DIF", "DEA", "MACD"}, <<r>>) : r \in MacdRows}
      \cup {RowsFrame({"DIF", "DEA", "MACD"}, <<q, r>>) : q, r \in MacdRows}

\* rows of calc_rsi: the three periods carry values of their own
RsiLevels == {NaN} \cup {Int2Num(i) : i \in {0, 19, 20, 21, 50, 51, 79, 80, 81, 100}}
RsiRows ==
    {[RSI6 |-> a, RSI12 |-> b, RSI24 |-> Int2Num(50)] :
        a \in RsiLevels, b \in {Int2Num(10), Int2Num(90)}}
RsiFrames ==
    {RowsFrame({"RSI6", "RSI12", "RSI24"}, <<r>>) : r \in RsiRows}
      \cup {RowsFrame({"RSI6", "RSI12", "RSI24"}, <<q, r>>) :
              q \in {x \in RsiRows : x.RSI6 \in {Int2Num(19), Int2Num(81)}},
              r \in RsiRows}

\* a row of calc_boll: bands at mid +/- 2 * std, std * std = var
BollRow(c, mid, var) ==
    [close |-> c, BOLL_MID |-> mid,
     BOLL_UP |-> Band("up", mid, var, 2), BOLL_DOWN |-> Band("down", mid, var, 2)]
BollRows ==
    {BollRow(Int2Num(c), mid, var) :
        c \in 6..14,
        mid \in {NaN, Int2Num(0), Int2Num(10)},
        var \in {NaN, Int2Num(0), Int2Num(1), Int2Num(2)}}
BollFrames ==
    {RowsFrame({"close", "BOLL_MID", "BOLL_UP", "BOLL_DOWN"}, <<r>>) : r \in BollRows}
      \cup {RowsFrame({"close", "BOLL_MID", "BOLL_UP", "BOLL_DOWN"},
                      <<BollRow(Int2Num(10), Int2Num(10), Int2Num(1)), r>>) :
              r \in BollRows}

SignalFrames == MaFrames \cup KdjFrames \cup MacdFrames \cup RsiFrames \cup BollFrames

InitSignals ==
    /\ pc = "indicators"
    /\ df \in SignalFrames
    /\ data = NoData
    /\ analysis = NoAnalysis
    /\ sig = NoSig
    /\ total_score = Unset
    /\ recommendation = "unset"
    /\ NoCache
    /\ NoScheduler

\* signals = analyze_signals(df)
AnalyzeSignals ==
    /\ pc = "indicators"
    /\ \E s \in {analyze_signals(df)} :
          IF s.raised
          THEN pc' = "raised" /\ UNCHANGED sig
          ELSE pc' = "signals" /\ sig' = [ran |-> TRUE, signals |-> s.signals]
    /\ UNCHANGED <<data, analysis, total_score, recommendation, df, clock, cacheVars, schedulerVars>>

NextSignals == AnalyzeSignals

SpecSignals == InitSignals /\ [][NextSignals]_vars

(***************************************************************************)
(* The indicator engine on its own: calc_all_indicators taken one calc_*   *)
(* step at a time on a price series, then called once more on the frame it *)
(* returned; and calc_ma called directly with periods of the caller's.     *)
(***************************************************************************)
\* a series that starts with bar h and continues with n - 1 copies of b
HeadSeries(n, h, b) == [i \in 1..n |-> IF i = 1 THEN h ELSE b]

\* series lengths around the lookbacks of the indicators
EngineLengths ==
    {1, 2, 5, 6, 9, 10, 20, 21} \cup ((MIN_BARS - 1)..(MIN_BARS + ExtraBars))

EngineFrames ==
    {Frame(Series(n, b, t), BaseColumns) :
        n \in EngineLengths, b \in {Bar(10, 0), Bar(10, 1)}, t \in Tails}
      \cup {Frame(HeadSeries(n, Bar(10, 1), Bar(10, 0)), BaseColumns) :
              n \in {9, 10, 12}}

\* closes for direct calls of calc_ma
MaInputFrames ==
    {Frame([i \in 1..n |-> Bar(10 + step * (i - 1), 0)], BaseColumns) :
        n \in 1..5, step \in {0, 2}}

InitEngine ==
    /\ \/ pc = "engine" /\ df \in EngineFrames
       \/ pc = "calc_ma" /\ df \in MaInputFrames
    /\ data = NoData
    /\ analysis = NoAnalysis
    /\ sig = NoSig
    /\ total_score = Unset
    /\ recommendation = "unset"
    /\ NoCache
    /\ NoScheduler

\* df = calc_*(df): the frame keeps what the step assigned, also on a raise
Step(r, next) ==
    /\ df' = r.df
    /\ pc' = IF r.raised THEN "raised" ELSE next
    /\ UNCHANGED <<data, analysis, sig, total_score, recommendation, clock, cacheVars, schedulerVars>>

CalcMa == pc = "engine" /\ Step(calc_ma(df, MA_PERIODS), "ma")
CalcMacd == pc = "ma" /\ Step(calc_macd(df, 12, 26, 9), "macd")
CalcRsi == pc = "macd" /\ Step(calc_rsi(df, RSI_PERIODS), "rsi")
CalcKdj == pc = "rsi" /\ Step(calc_kdj(df, 9, 3, 3), "kdj")
CalcBoll == pc = "kdj" /\ Step(calc_boll(df, 20, 2), "boll")
CalcVolumeRatio == pc = "boll" /\ Step(calc_volume_ratio(df, 5), "indicators")

\* calc_all_indicators(df) on the frame a first call returned
CalcAllAgain == pc = "indicators" /\ Step(calc_all_indicators(df), "indicators_again")

\* calc_ma(df, periods) with periods given by the caller
CalcMaWith ==
    /\ pc = "calc_ma"
    /\ \E periods \in {<<3>>, <<2, 4>>} : Step(calc_ma(df, periods), "ma_only")

NextEngine ==
    \/ CalcMa
    \/ CalcMacd
    \/ CalcRsi
    \/ CalcKdj
    \/ CalcBoll
    \/ CalcVolumeRatio
    \/ CalcAllAgain
    \/ CalcMaWith

SpecEngine == InitEngine /\ [][NextEngine]_vars

(***************************************************************************)
(* The three table scorers on their own: a run in which fetch_data stored  *)
(* one kind of table, taken around the thresholds the scorers compare      *)
(* against, followed by analyze_valuation, analyze_growth and              *)
(* analyze_fund_flow in the order generate_report calls them.              *)
(***************************************************************************)
\* P/E and P/B of the quote row: missing (None, NaN), zero, negative, and
\* both sides of every threshold
ScorerSpots ==
    {NoSpot} \cup
    {Spot(pe, pb) :
        pe \in {PyNone, PyNaN} \cup {PyNum(i) : i \in {-3, 0, 14, 15, 24, 25, 39, 40}},
        pb \in {PyNone, PyNaN} \cup {PyNum(i) : i \in {-1, 0, 1, 2, 5, 6}}}

ScorerValuations == {[dv |-> d] : d \in {PyNone, PyNaN, PyNum(0), PyNum(2), PyNum(3)}}

\* a growth rate as the financial abstract gives it: "16%"
Percent(i) == PyStr(PyToStr(PyNum(i)) \o <<"%">>)

\* growth rates on both sides of every threshold
GrowthLevels == {-1, 0, 1, 15, 16, 30, 31}

\* a field that is missing (None, False, NaN, "") or is not a number
Unparsed == {PyNone, PyFalse, PyNaN, PyStr(<<>>), PyStr(<<"-", "-">>), PyStr(<<"x", "%">>)}

GrowthFields == {Percent(i) : i \in GrowthLevels} \cup Unparsed

\* the report of an earlier period, below the most recent row
OlderRow == [rev |-> Percent(31), profit |-> Percent(-1)]

ScorerFinas ==
    {Fina(<<>>)} \cup
    {Fina(<<[rev |-> r, profit |-> p]>> \o older) :
        r \in GrowthFields, p \in GrowthFields, older \in {<<>>, <<OlderRow>>}}

\* daily net inflow figures: up to three days, or more than ten days of
\* which the first ones lie outside the trailing ten
FlowFigures == {-2, 0, 1}

ScorerFlows ==
    {Flow(<<>>)}
      \cup {Flow(<<PyNum(a)>>) : a \in FlowFigures}
      \cup {Flow(<<PyNum(a), PyNum(b)>>) : a, b \in FlowFigures}
      \cup {Flow(<<PyNum(a), PyNum(b), PyNum(c)>>) : a, b \in {-2, 0, 1, 3}, c \in FlowFigures}
      \cup {Flow([i \in 1..n |-> IF i <= n - 10 THEN PyNum(h)
                               ELSE IF i <= n - 3 THEN PyNum(0)
                               ELSE IF i = n - 2 THEN PyNum(a)
                               ELSE IF i = n - 1 THEN PyNum(0) ELSE PyNum(c)]) :
              n \in {11, 12}, h \in {-9, 9}, a \in {-2, 0, 1, 3}, c \in FlowFigures}

ScorerData ==
    {[NoData EXCEPT !.spot = s, !.valuation = v] :
        s \in ScorerSpots, v \in ScorerValuations}
      \cup {[NoData EXCEPT !.financial = g] : g \in ScorerFinas}
      \cup {[NoData EXCEPT !.fund_flow = f] : f \in ScorerFlows}

InitScorers ==
    /\ pc = "fetched"
    /\ data \in ScorerData
    /\ analysis = NoAnalysis
    /\ sig = NoSig
    /\ total_score = Unset
    /\ recommendation = "unset"
    /\ NoCache
    /\ NoScheduler
    /\ df = EmptyFrame

NextScorers ==
    \/ AnalyzeValuation
    \/ AnalyzeGrowth
    \/ AnalyzeFundFlow

SpecScorers == InitScorers /\ [][NextScorers]_vars

(***************************************************************************)
(* CacheManager: any sequence of set, get, delete, clear_expired and       *)
(* clear_all on one database, with the clock moving between calls.         *)
(***************************************************************************)
\* further Python values handed to set(): a list, a tuple, and a dict keyed
\* by a tuple
PyList(s) == [t |-> "list", v |-> s]
PyTuple(s) == [t |-> "tuple", v |-> s]
PyTupleKeyed == [t |-> "tuple_keyed", v |-> 0]

\* JSON texts
JsonNull == [j |-> "null", v |-> 0]
JsonNumber(i) == [j |-> "number", v |-> i]
JsonString(s) == [j |-> "string", v |-> s]
JsonArray(s) == [j |-> "array", v |-> s]

\* json.dumps(value, default=str, ensure_ascii=False): a tuple is written
\* as an array; a dict key that is a tuple raises TypeError
JsonDumps(value) ==
    CASE value.t = "none" -> [ok |-> TRUE, text |-> JsonNull]
      [] value.t = "num" -> [ok |-> TRUE, text |-> JsonNumber(value.v)]
      [] value.t = "str" -> [ok |-> TRUE, text |-> JsonString(value.v)]
      [] value.t \in {"list", "tuple"} -> [ok |-> TRUE, text |-> JsonArray(value.v)]
      [] OTHER -> [ok |-> FALSE, text |-> JsonNull]

\* json.loads(text): an array is read as a list
JsonLoads(text) ==
    CASE text.j = "null" -> PyNone
      [] text.j = "number" -> PyNum(text.v)
      [] text.j = "string" -> PyStr(text.v)
      [] text.j = "array" -> PyList(text.v)

Row(text, expire_at) == [present |-> TRUE, value |-> text, expire_at |-> expire_at]

\* each method yields the rows it leaves and the value it returns
Outcome(rows, value) == [rows |-> rows, value |-> value]

PyTrue == [t |-> "bool", v |-> 1]

\* INSERT OR REPLACE; an exception of json.dumps is caught and gives False
set(rows, now, key, value, expire_seconds) ==
    IF JsonDumps(value).ok
    THEN Outcome([rows EXCEPT ![key] = Row(JsonDumps(value).text, now + expire_seconds)],
                 PyTrue)
    ELSE Outcome(rows, PyFalse)

delete(rows, key) == Outcome([rows EXCEPT ![key] = NoRow], PyTrue)

get(rows, now, key) ==
    IF ~rows[key].present THEN Outcome(rows, PyNone)
    ELSE IF now > rows[key].expire_at THEN Outcome(delete(rows, key).rows, PyNone)
    ELSE Outcome(rows, JsonLoads(rows[key].value))

\* variant: a row expiring exactly now is removed as well
clear_expired_inclusive(rows, now) ==
    Outcome([k \in DOMAIN rows |->
                IF rows[k].present /\ rows[k].expire_at <= now THEN NoRow ELSE rows[k]],
            PyNum(Cardinality({k \in DOMAIN rows :
                                  rows[k].present /\ rows[k].expire_at <= now})))

\* DELETE FROM cache WHERE expire_at < now; returns cursor.rowcount
clear_expired(rows, now) ==
    Outcome([k \in DOMAIN rows |->
                IF rows[k].present /\ rows[k].expire_at < now THEN NoRow ELSE rows[k]],
            PyNum(Cardinality({k \in DOMAIN rows :
                                  rows[k].present /\ rows[k].expire_at < now})))

clear_all(rows) == Outcome([k \in DOMAIN rows |-> NoRow], PyTrue)

\* the clock runs from 0 to MaxClock
MaxClock == 3

\* values and lifetimes handed to set()
CacheValues == {PyNum(1), PyList(<<1, 2>>), PyTuple(<<1, 2>>), PyTupleKeyed}
Lifetimes == {0, 2}

InitCache ==
    /\ pc = "cache"
    /\ data = NoData
    /\ analysis = NoAnalysis
    /\ sig = NoSig
    /\ total_score = Unset
    /\ recommendation = "unset"
    /\ df = EmptyFrame
    /\ NoCache
    /\ NoScheduler

Call(op, key, out) ==
    /\ cache' = out.rows
    /\ ret' = [op |-> op, key |-> key, value |-> out.value]
    /\ UNCHANGED <<pc, data, analysis, sig, total_score, recommendation, df,
                   clock, schedulerVars>>

Removed == [state |-> "removed", value |-> PyNone, expire_at |-> 0]

Set ==
    \E key \in CacheKeys, value \in CacheValues, expire_seconds \in Lifetimes :
        /\ Call("set", key, set(cache, clock, key, value, expire_seconds))
        /\ written' = [written EXCEPT ![key] =
                          [state |-> "set", value |-> value,
                           expire_at |-> clock + expire_seconds]]

Get ==
    \E key \in CacheKeys :
        /\ Call("get", key, get(cache, clock, key))
        /\ UNCHANGED written

Delete ==
    \E key \in CacheKeys :
        /\ Call("delete", key, delete(cache, key))
        /\ written' = [written EXCEPT ![key] = Removed]

ClearExpired ==
    /\ Call("clear_expired", "", clear_expired(cache, clock))
    /\ UNCHANGED written

ClearAll ==
    /\ Call("clear_all", "", clear_all(cache))
    /\ written' = [k \in CacheKeys |-> Removed]

\* time passes between two calls
Tick ==
    /\ clock < MaxClock
    /\ clock' = clock + 1
    /\ UNCHANGED <<pc, data, analysis, sig, total_score, recommendation, df,
                   cacheVars, schedulerVars>>

NextCache ==
    \/ Set
    \/ Get
    \/ Delete
    \/ ClearExpired
    \/ ClearAll
    \/ Tick

SpecCache == InitCache /\ [][NextCache]_vars

(***************************************************************************)
(* scheduler.py: main dispatches on its switch to run_daily_task,          *)
(* generate_report or run_scheduler.  Time is counted in ticks, DayTicks   *)
(* of them to a day; daily_fetch_time is a tick of the day.                *)
(***************************************************************************)
DayTicks == 3
\* the scheduler is followed over two days
LastTick == 2 * DayTicks

Stocks == <<"600000", "000001", "002475">>

Configs ==
    {[enabled |-> e, daily_fetch_time |-> t, watchlist |-> SubSeq(Stocks, 1, n)] :
        e \in BOOLEAN, t \in 0..(DayTicks - 1), n \in {0, 1, Len(Stocks)}}

\* the lines generate_report puts in front of the reports
Header == <<"# summary", "generated", "---">>
Separator == "---"
\* what InvestmentAnalyzer(code).generate_report() returns
Report(code) == "report " \o code

\* how the try block of one watchlist stock ends: it runs through, the
\* analyzer raises, or writing the stock's file raises
Outcomes == {"ok", "analysis raises", "save raises"}

\* the date part of a file name
Day(now) == now \div DayTicks
FileName(stem, now) == <<stem, Day(now)>>

\* open(path, 'w') ... f.write(content)
WriteFile(dir, name, content) ==
    [n \in (DOMAIN dir) \cup {name} |-> IF n = name THEN content ELSE dir[n]]

\* variant: the report joins the list before its file is written
Collected_before_save(reports, outcome, report) ==
    IF outcome \in {"ok", "save raises"} THEN reports \o <<report, Separator>>
    ELSE reports

\* all_reports after one stock's try block
Collected(reports, outcome, report) ==
    IF outcome = "ok" THEN reports \o <<report, Separator>> ELSE reports

\* variant: a target equal to now already counts as passed
next_target_inclusive(now, daily_time) ==
    IF now >= Day(now) * DayTicks + daily_time
    THEN Day(now) * DayTicks + daily_time + DayTicks
    ELSE Day(now) * DayTicks + daily_time

\* now.replace(hour, minute, second=0, microsecond=0), moved to tomorrow
\* when now is past it
next_target(now, daily_time) ==
    IF now > Day(now) * DayTicks + daily_time
    THEN Day(now) * DayTicks + daily_time + DayTicks
    ELSE Day(now) * DayTicks + daily_time

InitScheduler ==
    /\ pc = "main"
    /\ data = NoData
    /\ analysis = NoAnalysis
    /\ sig = NoSig
    /\ total_score = Unset
    /\ recommendation = "unset"
    /\ df = EmptyFrame
    /\ clock \in 0..(DayTicks - 1)
    /\ cache = [k \in CacheKeys |-> NoRow]
    /\ ret = NoCall
    /\ written = [k \in CacheKeys |-> NeverSet]
    /\ args \in {"run_now", "report", "fetch", "schedule"}
    /\ config \in Configs
    /\ attempts = <<>>
    /\ all_reports = <<>>
    /\ files = <<>>
    /\ target_time = 0
    /\ wait_seconds = 0
    /\ runs = <<>>

analyzerVars == <<data, analysis, sig, total_score, recommendation, df>>

Main ==
    /\ pc = "main"
    /\ pc' = CASE args = "run_now" -> "run_daily_task"
               [] args = "report" -> "generate_report"
               [] args = "fetch" -> "exit"
               [] OTHER -> "run_scheduler"
    /\ UNCHANGED <<analyzerVars, clock, cacheVars, schedulerVars>>

\* the enabled check and the start-up messages
RunScheduler ==
    /\ pc = "run_scheduler"
    /\ pc' = IF config.enabled THEN "loop" ELSE "exit"
    /\ UNCHANGED <<analyzerVars, clock, cacheVars, schedulerVars>>

\* top of the while loop: target_time and wait_seconds
NextOccurrence ==
    /\ pc = "loop"
    /\ target_time' = next_target(clock, config.daily_fetch_time)
    /\ wait_seconds' = next_target(clock, config.daily_fetch_time) - clock
    /\ pc' = "sleep"
    /\ UNCHANGED <<analyzerVars, clock, cacheVars, args, config, attempts,
                   all_reports, files, runs>>

\* time.sleep(wait_seconds) returns after at least wait_seconds
Sleep ==
    /\ pc = "sleep"
    /\ \E late \in {0, 1} :
          /\ clock + wait_seconds + late <= LastTick
          /\ clock' = clock + wait_seconds + late
    /\ pc' = "run_daily_task"
    /\ UNCHANGED <<analyzerVars, cacheVars, schedulerVars>>

\* Ctrl+C while the scheduler sleeps
Interrupt ==
    /\ pc = "sleep"
    /\ pc' = "stopped"
    /\ UNCHANGED <<analyzerVars, clock, cacheVars, schedulerVars>>

\* run_daily_task up to its call of generate_report: the data of every
\* watchlist stock is fetched, which takes time
RunDailyTask ==
    /\ pc = "run_daily_task"
    /\ runs' = Append(runs, [target |-> target_time, at |-> clock])
    /\ \E took \in {1, DayTicks} : clock' = clock + took
    /\ pc' = "generate_report"
    /\ UNCHANGED <<analyzerVars, cacheVars, args, config, attempts, all_reports,
                   files, target_time, wait_seconds>>

\* generate_report up to its loop
GenerateReport ==
    /\ pc = "generate_report"
    /\ all_reports' = Header
    /\ attempts' = <<>>
    /\ pc' = "stocks"
    /\ UNCHANGED <<analyzerVars, clock, cacheVars, args, config, files,
                   target_time, wait_seconds, runs>>

\* one pass of the loop over the watchlist
AnalyzeStock ==
    /\ pc = "stocks"
    /\ Len(attempts) < Len(config.watchlist)
    /\ \E outcome \in Outcomes, code \in {config.watchlist[Len(attempts) + 1]} :
          /\ attempts' = Append(attempts, outcome)
          /\ files' = IF outcome = "ok"
                      THEN WriteFile(files, FileName(code, clock), Report(code))
                      ELSE files
          /\ all_reports' = Collected(all_reports, outcome, Report(code))
    /\ UNCHANGED <<pc, analyzerVars, clock, cacheVars, args, config,
                   target_time, wait_seconds, runs>>

\* after the loop the summary file is written and generate_report returns,
\* to main or through run_daily_task to main or to the scheduler's loop
WriteSummary ==
    /\ pc = "stocks"
    /\ Len(attempts) = Len(config.watchlist)
    /\ files' = WriteFile(files, FileName("summary", clock), all_reports)
    /\ pc' = IF args = "schedule" THEN "loop" ELSE "exit"
    /\ UNCHANGED <<analyzerVars, clock, cacheVars, args, config, attempts,
                   all_reports, target_time, wait_seconds, runs>>

NextScheduler ==
    \/ Main
    \/ RunScheduler
    \/ NextOccurrence
    \/ Sleep
    \/ Interrupt
    \/ RunDailyTask
    \/ GenerateReport
    \/ AnalyzeStock
    \/ WriteSummary

SpecScheduler == InitScheduler /\ [][NextScheduler]_vars

(***************************************************************************)
(* Properties.                                                             *)
(***************************************************************************)

\* C1: when all four dimensions are present the total score is the floor of
\* 0.3*valuation + 0.3*growth + 0.2*fund_flow + 0.2*technical; the scores
\* 70, 60, 40, 50 give 57, which is recommended as hold-cautious.
C1_WeightedFloor ==
    (pc \in {"scored", "done"} /\ \A key \in Dims : analysis[key].present) =>
        LET v == analysis["valuation"].result.score
            g == analysis["growth"].result.score
            f == analysis["fund_flow"].result.score
            t == analysis["technical"].result.score
            tenths == 3 * v + 3 * g + 2 * f + 2 * t
        IN  /\ 10 * total_score.v <= tenths
            /\ tenths < 10 * total_score.v + 10
            /\ (v = 70 /\ g = 60 /\ f = 40 /\ t = 50) =>
                  /\ total_score.v = 57
                  /\ pc = "done" => recommendation = "hold-cautious"

\* the scores 70, 60, 40, 50 have been combined and the tier chosen
C1_Example ==
    /\ pc = "done"
    /\ \A key \in Dims : analysis[key].present
    /\ analysis["valuation"].result.score = 70
    /\ analysis["growth"].result.score = 60
    /\ analysis["fund_flow"].result.score = 40
    /\ analysis["technical"].result.score = 50
    /\ total_score.v = 57
    /\ recommendation = "hold-cautious"

\* C2: every integer score falls in exactly one of five tiers: strong-buy
\* from 80, buy for 65..79, hold-cautious for 50..64, avoid for 35..49 and
\* strong-avoid up to 34.
C2_Tiers ==
    pc \in {"done", "recommended"} =>
        LET s == total_score.v
        IN  /\ recommendation = "strong-buy" <=> s >= 80
            /\ recommendation = "buy" <=> (65 <= s /\ s <= 79)
            /\ recommendation = "hold-cautious" <=> (50 <= s /\ s <= 64)
            /\ recommendation = "avoid" <=> (35 <= s /\ s <= 49)
            /\ recommendation = "strong-avoid" <=> s <= 34

\* get_recommendation was given 65, the lowest score of the buy tier
C2_AtBoundary ==
    /\ pc = "recommended"
    /\ total_score.v = 65
    /\ recommendation = "buy"

\* C3: a dimension absent from the analysis results adds nothing to the
\* total and the weights of the others stay as they are; with no dimension
\* present the total is 50.
C3_AbsentExcluded ==
    (pc \in {"scored", "done"} /\ \E key \in Dims : ~analysis[key].present) =>
        LET part(key, w) ==
                IF analysis[key].present THEN w * analysis[key].result.score ELSE 0
            tenths == part("valuation", 3) + part("growth", 3)
                        + part("fund_flow", 2) + part("technical", 2)
        IN  IF \A key \in Dims : ~analysis[key].present
            THEN total_score.v = 50
            ELSE /\ 10 * total_score.v <= tenths
                 /\ tenths < 10 * total_score.v + 10

\* only the valuation dimension is present, with score 70: the total is
\* floor(0.3 * 70)
C3_OnlyValuation ==
    /\ pc = "scored"
    /\ analysis["valuation"].present
    /\ \A key \in Dims \ {"valuation"} : ~analysis[key].present
    /\ analysis["valuation"].result.score = 70
    /\ total_score.v = 21

\* every fetch failed or returned an empty table
NothingFetched ==
    /\ ~data.spot.present
    /\ data.valuation = NoValuation
    /\ ~data.fund_flow.present \/ data.fund_flow.vals = <<>>
    /\ ~data.financial.present \/ data.financial.rows = <<>>
    /\ ~data.kline.present \/ NRows(data.kline.df) = 0

\* C4: when every fetch fails or returns nothing the run still completes:
\* each dimension scores 50 with no rationale, the total is 50 and the
\* recommendation is hold-cautious.
C4_NothingFetched ==
    NothingFetched =>
        /\ pc # "raised"
        /\ \A key \in Dims :
              analysis[key].present =>
                  analysis[key].result = [score |-> 50, signals |-> <<>>]
        /\ pc \in {"technical", "scored", "done"} =>
              \A key \in Dims : analysis[key].present
        /\ pc \in {"scored", "done"} => total_score = Value(50)
        /\ pc = "done" => recommendation = "hold-cautious"

\* a run that fetched an empty fund-flow table and an empty price series,
\* and nothing else, has completed
C4_EmptyTablesDone ==
    /\ pc = "done"
    /\ NothingFetched
    /\ data.fund_flow.present
    /\ data.kline.present
    /\ recommendation = "hold-cautious"

\* C5: a scorer never raises on the data it is given (values of unexpected
\* type and tables with missing columns included), so no run ends in an
\* exception.
C5_ScorersNeverRaise == pc # "raised"

\* C6: a price series of 60 bars or fewer scores 50 on the technical
\* dimension with no rationale and neither the indicator engine nor the
\* signal detector runs; from 61 bars on both run.
C6_BarGate ==
    (pc \in {"technical", "scored", "done"} /\ data.kline.present) =>
        LET n == NRows(data.kline.df)
        IN  /\ n <= 60 =>
                  /\ analysis["technical"].result = [score |-> 50, signals |-> <<>>]
                  /\ Columns(data.kline.df) = BaseColumns
                  /\ ~sig.ran
            /\ n >= 61 =>
                  /\ {"MA5", "DIF", "RSI6", "K", "BOLL_UP", "volume_ratio"}
                        \subseteq Columns(data.kline.df)
                  /\ sig.ran

\* the technical scorer has returned for a series of exactly 60 bars
C6_SixtyBars ==
    /\ pc = "technical"
    /\ data.kline.present
    /\ NRows(data.kline.df) = 60
    /\ analysis["technical"].result.score = 50
    /\ ~sig.ran

\* C7: with enough bars the technical score is 50 plus 5 per family marked
\* bullish minus 5 per family marked bearish, and the rationale has one line
\* per classified family, in the order the families were evaluated.
C7_TechnicalScore ==
    (pc \in {"technical", "scored", "done"} /\ sig.ran) =>
        LET fam == sig.signals
            res == analysis["technical"].result
            bullish == Cardinality({i \in 1..Len(fam) : fam[i].mark = "green"})
            bearish == Cardinality({i \in 1..Len(fam) : fam[i].mark = "red"})
        IN  /\ res.score = 50 + 5 * bullish - 5 * bearish
            /\ Len(res.signals) = Len(fam)
            /\ \A i \in 1..Len(fam) :
                  /\ res.signals[i].mark = fam[i].mark
                  /\ res.signals[i].text = fam[i].name \o ": " \o fam[i].text
            /\ \A i, j \in 1..Len(fam) : i # j => fam[i].name # fam[j].name

\* a series was scored whose families include a bullish, a bearish and a
\* neutral one
C7_MixedSignals ==
    /\ pc = "technical"
    /\ sig.ran
    /\ \E i, j, k \in 1..Len(sig.signals) :
          /\ sig.signals[i].mark = "green"
          /\ sig.signals[j].mark = "red"
          /\ sig.signals[k].mark = "white"
    /\ analysis["technical"].result.score # 50

\* C8: analyze_signals leaves out a family when an indicator value it needs
\* is undefined on the latest row: every family it reports has its values
\* defined there.
C8_UndefinedFamilyOmitted ==
    (pc \in {"technical", "scored", "done"} /\ sig.ran) =>
        LET frame == data.kline.df
            needs(name) ==
                CASE name = "MA" -> {"MA5", "MA20"}
                  [] name = "MACD" -> {"DIF", "DEA", "MACD"}
                  [] name = "RSI" -> {"RSI6"}
                  [] name = "KDJ" -> {"K", "D", "J"}
                  [] name = "BOLL" -> {"BOLL_UP", "BOLL_MID", "BOLL_DOWN"}
        IN  \A i \in 1..Len(sig.signals) :
                \A c \in needs(sig.signals[i].name) :
                    At(frame, c, NRows(frame)).k # "nan"

\* the frame of the KDJ example: K = 25 after 15, D = 20 after 22
KdjExample ==
    /\ {"K", "D", "J"} \subseteq Columns(df)
    /\ NRows(df) = 2
    /\ At(df, "K", 2) = Int2Num(25)
    /\ At(df, "K", 1) = Int2Num(15)
    /\ At(df, "D", 2) = Int2Num(20)
    /\ At(df, "D", 1) = Int2Num(22)

\* C9 as stated: latest K = 25, previous K = 15, latest D = 20, previous
\* D = 22 is classified as a bullish low crossover.
C9_ExampleIsLowCross ==
    (pc = "signals" /\ KdjExample) =>
        \E i \in 1..Len(sig.signals) :
            sig.signals[i] = Signal("KDJ", "green", "low-golden-cross")

\* C9, amended: latest K = 25, previous K = 15, latest D = 20, previous
\* D = 22 is classified as neutral, because the bullish low crossover
\* needs the latest K below 20 (and J = 35 is within 0..100).
C9_ExampleIsNeutral ==
    (pc = "signals" /\ KdjExample) =>
        /\ \E i \in 1..Len(sig.signals) :
              sig.signals[i] = Signal("KDJ", "white", "neutral")
        /\ \A i \in 1..Len(sig.signals) :
              sig.signals[i].name = "KDJ" => sig.signals[i].text = "neutral"

\* analyze_signals has classified the frame of the KDJ example
C9_ExampleAnalyzed ==
    /\ pc = "signals"
    /\ KdjExample
    /\ \E i \in 1..Len(sig.signals) : sig.signals[i].name = "KDJ"

\* the rows of a frame carry defined MA5, MA20 and close
MaDefined ==
    /\ {"close", "MA5", "MA20"} \subseteq Columns(df)
    /\ \A c \in {"close", "MA5", "MA20"} :
          \A r \in 1..NRows(df) : IsFin(At(df, c, r))

\* C10: the MA family takes the first rule that matches: bullish crossover
\* (MA5 above MA20 now, not above before), bearish crossover (MA5 below
\* MA20 now, not below before), bullish alignment (close > MA5 > MA20),
\* bearish alignment (close < MA5 < MA20), else range; a crossover wins
\* over an alignment, and a frame of one row never gives a crossover.
C10_MaPrecedence ==
    (pc = "signals" /\ MaDefined) =>
        LET last == NRows(df)
            prev == IF NRows(df) = 1 THEN 1 ELSE NRows(df) - 1
            c == At(df, "close", last).n
            a == At(df, "MA5", last).n
            b == At(df, "MA20", last).n
            pa == At(df, "MA5", prev).n
            pb == At(df, "MA20", prev).n
            expected ==
                IF a > b /\ pa <= pb THEN "golden-cross"
                ELSE IF a < b /\ pa >= pb THEN "death-cross"
                ELSE IF c > a /\ a > b THEN "bullish-alignment"
                ELSE IF c < a /\ a < b THEN "bearish-alignment"
                ELSE "range"
        IN  /\ Len(sig.signals) = 1
            /\ sig.signals[1].name = "MA"
            /\ sig.signals[1].text = expected
            /\ sig.signals[1].mark =
                  (IF expected \in {"golden-cross", "bullish-alignment"} THEN "green"
                   ELSE IF expected = "range" THEN "white" ELSE "red")
            /\ NRows(df) = 1 =>
                  sig.signals[1].text \notin {"golden-cross", "death-cross"}

\* a frame on which both the bullish crossover and the bullish alignment
\* hold was classified as a crossover
C10_CrossoverWins ==
    /\ pc = "signals"
    /\ MaDefined
    /\ NRows(df) = 2
    /\ Gt(At(df, "close", 2), At(df, "MA5", 2))
    /\ Gt(At(df, "MA5", 2), At(df, "MA20", 2))
    /\ Le(At(df, "MA5", 1), At(df, "MA20", 1))
    /\ sig.signals = <<Signal("MA", "green", "golden-cross")>>

\* the rows of a frame carry defined DIF, DEA and MACD
MacdDefined ==
    /\ {"DIF", "DEA", "MACD"} \subseteq Columns(df)
    /\ \A c \in {"DIF", "DEA", "MACD"} :
          \A r \in 1..NRows(df) : IsFin(At(df, c, r))

\* C11: the MACD family takes the first rule that matches: bullish
\* crossover (DIF above DEA now, not above before), bearish crossover (DIF
\* below DEA now, not below before), bullish if the histogram is above 0,
\* else bearish; a histogram of exactly 0 is bearish and the family is
\* never neutral.
C11_MacdPrecedence ==
    (pc = "signals" /\ MacdDefined) =>
        LET last == NRows(df)
            prev == IF NRows(df) = 1 THEN 1 ELSE NRows(df) - 1
            dif == At(df, "DIF", last).n
            dea == At(df, "DEA", last).n
            hist == At(df, "MACD", last).n
            pdif == At(df, "DIF", prev).n
            pdea == At(df, "DEA", prev).n
            expected ==
                IF dif > dea /\ pdif <= pdea THEN <<"green", "golden-cross">>
                ELSE IF dif < dea /\ pdif >= pdea THEN <<"red", "death-cross">>
                ELSE IF hist > 0 THEN <<"green", "bullish">>
                ELSE <<"red", "bearish">>
        IN  /\ sig.signals = <<Signal("MACD", expected[1], expected[2])>>
            /\ hist = 0 => sig.signals[1].text = "bearish"
            /\ sig.signals[1].mark # "white"

\* a frame whose latest histogram is exactly 0 was classified as bearish
C11_ZeroHistogram ==
    /\ pc = "signals"
    /\ MacdDefined
    /\ At(df, "MACD", NRows(df)) = Zero
    /\ sig.signals = <<Signal("MACD", "red", "bearish")>>

\* C12: the RSI family looks only at RSI6 on the latest row: overbought
\* above 80, else oversold below 20, else bullish-lean above 50, else
\* bearish-lean; 80 and 20 themselves are neither overbought nor oversold
\* and exactly 50 is bearish-lean.
C12_RsiRule ==
    (pc = "signals" /\ "RSI6" \in Columns(df) /\ IsFin(At(df, "RSI6", NRows(df)))) =>
        LET r == At(df, "RSI6", NRows(df)).n
            expected ==
                IF r > 80 THEN <<"red", "overbought">>
                ELSE IF r < 20 THEN <<"green", "oversold">>
                ELSE IF r > 50 THEN <<"green", "bullish-lean">>
                ELSE <<"red", "bearish-lean">>
        IN  /\ sig.signals = <<Signal("RSI", expected[1], expected[2])>>
            /\ r = 80 => sig.signals[1].text = "bullish-lean"
            /\ r = 20 => sig.signals[1].text = "bearish-lean"
            /\ r = 50 => sig.signals[1].text = "bearish-lean"

\* a frame whose latest RSI6 is exactly 80, after a row with RSI6 above 80
\* and beside an RSI12 of 90, was classified as bullish-lean
C12_AtEighty ==
    /\ pc = "signals"
    /\ {"RSI6", "RSI12"} \subseteq Columns(df)
    /\ NRows(df) = 2
    /\ At(df, "RSI6", 2) = Int2Num(80)
    /\ At(df, "RSI6", 1) = Int2Num(81)
    /\ At(df, "RSI12", 2) = Int2Num(90)
    /\ sig.signals = <<Signal("RSI", "green", "bullish-lean")>>

\* the rows of a frame carry K, D and J
KdjDefined ==
    /\ {"K", "D", "J"} \subseteq Columns(df)
    /\ \A c \in {"K", "D", "J"} :
          \A r \in 1..NRows(df) : IsFin(At(df, c, r))

\* C13: the KDJ family takes the first rule that matches: bullish low
\* crossover (K above D now, not above before, K below 20), bearish high
\* crossover (K below D now, not below before, K above 80), overbought if
\* J > 100, oversold if J < 0, else neutral; a crossover with K in 20..80
\* is decided by the J rules.
C13_KdjPrecedence ==
    (pc = "signals" /\ KdjDefined) =>
        LET last == NRows(df)
            prev == IF NRows(df) = 1 THEN 1 ELSE NRows(df) - 1
            k == At(df, "K", last).n
            d == At(df, "D", last).n
            j == At(df, "J", last).n
            pk == At(df, "K", prev).n
            pd == At(df, "D", prev).n
            byJ == IF j > 100 THEN <<"red", "overbought">>
                   ELSE IF j < 0 THEN <<"green", "oversold">>
                   ELSE <<"white", "neutral">>
            expected ==
                IF k > d /\ pk <= pd /\ k < 20 THEN <<"green", "low-golden-cross">>
                ELSE IF k < d /\ pk >= pd /\ k > 80 THEN <<"red", "high-death-cross">>
                ELSE byJ
        IN  /\ sig.signals = <<Signal("KDJ", expected[1], expected[2])>>
            /\ (20 <= k /\ k <= 80) =>
                  sig.signals = <<Signal("KDJ", byJ[1], byJ[2])>>

\* K fell through D and stands at exactly 80: the J rule decided (neutral)
C13_CrossAtEighty ==
    /\ pc = "signals"
    /\ KdjDefined
    /\ NRows(df) = 2
    /\ At(df, "K", 2) = Int2Num(80)
    /\ At(df, "D", 2) = Int2Num(82)
    /\ At(df, "K", 1) = Int2Num(85)
    /\ At(df, "D", 1) = Int2Num(82)
    /\ sig.signals = <<Signal("KDJ", "white", "neutral")>>

\* the latest row carries a close, a non-zero mid and bands that lie a
\* whole number above and below it
BollWhole ==
    /\ {"close", "BOLL_MID", "BOLL_UP", "BOLL_DOWN"} \subseteq Columns(df)
    /\ IsFin(At(df, "close", NRows(df)))
    /\ IsFin(At(df, "BOLL_MID", NRows(df)))
    /\ At(df, "BOLL_MID", NRows(df)) # Zero
    /\ At(df, "BOLL_UP", NRows(df)).k # "nan"
    /\ \E s \in 0..20 : Int2Num(s * s) = At(df, "BOLL_UP", NRows(df)).sq

\* C14: on the latest row the BOLL family is upper-breach if close > UP,
\* else lower-breach if close < DOWN, else in-channel with the band width
\* (UP - DOWN) / MID * 100; a close equal to UP or DOWN is in-channel.
C14_BollRule ==
    (pc = "signals" /\ BollWhole) =>
        LET last == NRows(df)
            c == At(df, "close", last).n
            mid == At(df, "BOLL_MID", last).n
            s == CHOOSE x \in 0..20 : Int2Num(x * x) = At(df, "BOLL_UP", last).sq
            up == mid + s
            down == mid - s
        IN  /\ Len(sig.signals) = 1
            /\ sig.signals[1].name = "BOLL"
            /\ IF c > up
               THEN sig.signals[1] = Signal("BOLL", "red", "upper-breach")
               ELSE IF c < down
               THEN sig.signals[1] = Signal("BOLL", "green", "lower-breach")
               ELSE /\ sig.signals[1].mark = "white"
                    /\ sig.signals[1].text = "in-channel"
                    /\ sig.signals[1].width.k = "width"
                    /\ sig.signals[1].width.neg = (mid < 0)
                    /\ sig.signals[1].width.sq
                          = Rat(((up - down) * 100) * ((up - down) * 100), mid * mid)

\* a close of 12 on an upper band of 12 (mid 10, lower band 8) was
\* classified as in-channel with a width of 40 percent
C14_OnUpperBand ==
    /\ pc = "signals"
    /\ BollWhole
    /\ At(df, "close", NRows(df)) = Int2Num(12)
    /\ At(df, "BOLL_MID", NRows(df)) = Int2Num(10)
    /\ At(df, "BOLL_UP", NRows(df)).sq = Int2Num(4)
    /\ Len(sig.signals) = 1
    /\ sig.signals[1].text = "in-channel"
    /\ sig.signals[1].width.sq = Int2Num(1600)

\* the sum of the integer closes of rows lo..hi
RECURSIVE CloseTotal(_, _, _)
CloseTotal(frame, lo, hi) ==
    IF lo > hi THEN 0
    ELSE At(frame, "close", hi).n + CloseTotal(frame, lo, hi - 1)

\* C15: for every price series and every period p, MA_p is undefined on
\* the first p-1 bars and on every later bar is the arithmetic mean of the
\* last p closes; closes 10, 12, 14, 16, 18 with p = 3 give 16 on the
\* fifth bar.
C15_TrailingMean ==
    /\ \A p \in {2, 3, 4, 5, 10, 20, 60} :
          ColName("MA", p) \in Columns(df) =>
              \A i \in 1..NRows(df) :
                  IF i < p THEN IsNaN(At(df, ColName("MA", p), i))
                  ELSE At(df, ColName("MA", p), i)
                          = Rat(CloseTotal(df, i - p + 1, i), p)
    /\ ("MA3" \in Columns(df) /\ NRows(df) = 5
          /\ \A i \in 1..5 : At(df, "close", i) = Int2Num(8 + 2 * i))
         => At(df, "MA3", 5) = Int2Num(16)

\* calc_ma with period 3 has run on the closes 10, 12, 14, 16, 18
C15_Example ==
    /\ pc = "ma_only"
    /\ "MA3" \in Columns(df)
    /\ NRows(df) = 5
    /\ \A i \in 1..5 : At(df, "close", i) = Int2Num(8 + 2 * i)
    /\ IsNaN(At(df, "MA3", 2))
    /\ At(df, "MA3", 5) = Int2Num(16)

\* the rises (up = TRUE) or falls of the integer closes summed over rows
\* lo..hi; the first row has no change
RECURSIVE MoveTotal(_, _, _, _)
MoveTotal(frame, up, lo, hi) ==
    IF lo > hi THEN 0
    ELSE LET d == IF hi = 1 THEN 0
                  ELSE At(frame, "close", hi).n - At(frame, "close", hi - 1).n
         IN  (IF up /\ d > 0 THEN d ELSE IF ~up /\ d < 0 THEN -d ELSE 0)
               + MoveTotal(frame, up, lo, hi - 1)

\* C16: for each period p in {6, 12, 24}, on every row whose trailing p
\* bars have a positive mean gain plus mean loss, RSI_p lies in 0..100; it
\* is exactly 100 when the mean loss is 0 and the mean gain positive, and
\* it is undefined when both are 0.
C16_RsiRange ==
    \A p \in {6, 12, 24} :
        ColName("RSI", p) \in Columns(df) =>
            \A i \in p..NRows(df) :
                LET gain == MoveTotal(df, TRUE, i - p + 1, i)
                    loss == MoveTotal(df, FALSE, i - p + 1, i)
                    rsi == At(df, ColName("RSI", p), i)
                IN  /\ gain + loss > 0 =>
                          IsFin(rsi) /\ Ge(rsi, Zero) /\ Le(rsi, Hundred)
                    /\ (loss = 0 /\ gain > 0) => rsi = Hundred
                    /\ (loss = 0 /\ gain = 0) => IsNaN(rsi)

\* calc_rsi has run on a series that is flat and then rises on its last
\* bar: RSI6 is 100 there and undefined the bar before
C16_OnlyGains ==
    /\ pc = "rsi"
    /\ NRows(df) >= 7
    /\ At(df, "RSI6", NRows(df)) = Hundred
    /\ IsNaN(At(df, "RSI6", NRows(df) - 1))

\* C17: on every row MACD = 2 * (DIF - DEA); DIF and DEA come from
\* exponential recurrences seeded with the first value, so all three are
\* defined from the first bar on, where DIF = DEA = MACD = 0.
C17_MacdHistogram ==
    "MACD" \in Columns(df) =>
        /\ \A i \in 1..NRows(df) :
              /\ IsFin(At(df, "DIF", i))
              /\ IsFin(At(df, "DEA", i))
              /\ IsFin(At(df, "MACD", i))
              /\ At(df, "MACD", i)
                    = Mul(Int2Num(2), Sub(At(df, "DIF", i), At(df, "DEA", i)))
        /\ NRows(df) >= 1 =>
              /\ At(df, "DIF", 1) = Zero
              /\ At(df, "DEA", 1) = Zero
              /\ At(df, "MACD", 1) = Zero
        \* the second bar: EMA12 = (2 c2 + 11 c1) / 13, EMA26 = (2 c2 + 25 c1) / 27
        /\ NRows(df) >= 2 =>
              LET c1 == At(df, "close", 1).n
                  c2 == At(df, "close", 2).n
              IN  At(df, "DIF", 2)
                     = Sub(Rat(2 * c2 + 11 * c1, 13), Rat(2 * c2 + 25 * c1, 27))
        \* DEA = alpha * DIF + (1 - alpha) * previous DEA with alpha = 2/10
        /\ \A i \in 2..NRows(df) :
              Mul(Int2Num(5), At(df, "DEA", i))
                 = Add(At(df, "DIF", i), Mul(Int2Num(4), At(df, "DEA", i - 1)))

\* calc_macd has run on a series whose last bar moved: DIF has left 0 and
\* DEA lags behind it
C17_Moving ==
    /\ pc = "macd"
    /\ NRows(df) >= 2
    /\ At(df, "DIF", 1) = Zero
    /\ At(df, "DIF", NRows(df)) # Zero
    /\ At(df, "MACD", NRows(df)) # Zero

\* RSV is undefined on row i: fewer than 9 bars, or the highs and lows of
\* the last 9 bars all coincide (a zero high-low range over the window)
RsvUndefined(frame, i) ==
    \/ i < 9
    \/ \A j, k \in (i - 8)..i : At(frame, "high", j) = At(frame, "low", k)

\* C18: an undefined input propagates: a column is undefined on every row
\* whose trailing window is not covered or whose inputs are undefined; K, D
\* and J are undefined on every row whose RSV is undefined, and BOLL_UP and
\* BOLL_DOWN wherever the 20-bar mean is undefined.
C18_UndefinedPropagates ==
    /\ "K" \in Columns(df) =>
          \A i \in 1..NRows(df) :
              RsvUndefined(df, i) =>
                  /\ IsNaN(At(df, "K", i))
                  /\ IsNaN(At(df, "D", i))
                  /\ IsNaN(At(df, "J", i))
    /\ "BOLL_UP" \in Columns(df) =>
          \A i \in 1..NRows(df) :
              /\ i < 20 => IsNaN(At(df, "BOLL_MID", i))
              /\ IsNaN(At(df, "BOLL_MID", i)) =>
                    /\ At(df, "BOLL_UP", i).k = "nan"
                    /\ At(df, "BOLL_DOWN", i).k = "nan"
    /\ "volume_ratio" \in Columns(df) =>
          \A i \in 1..NRows(df) : i < 5 => IsNaN(At(df, "volume_ratio", i))

\* C19: calc_all_indicators called again on the frame it returned gives
\* the same value, or the same undefinedness, in every column on every
\* row: the engine keeps no state between runs.
C19_SecondRunSame ==
    [][pc = "indicators" => (pc' = "indicators_again" /\ df' = df)]_vars

\* the engine has run twice on a series of more than 60 bars that ends in
\* moving bars
C19_RanTwice ==
    /\ pc = "indicators_again"
    /\ NRows(df) > 60
    /\ IsFin(At(df, "MA60", NRows(df)))
    /\ At(df, "DIF", NRows(df)) # Zero
    /\ IsFin(At(df, "RSI6", NRows(df)))

\* C20: no step of the engine changes the number or order of the bars or
\* their date, open, high, low, close and volume, and no step changes a
\* column written by an earlier step: the engine only adds columns.
C20_OnlyAddsColumns ==
    [][/\ NRows(df') = NRows(df)
       /\ \A c \in Columns(df) : c \in Columns(df') /\ df'.col[c] = df.col[c]]_vars

\* all six steps have run on a series of more than 60 bars
C20_AllStepsRan ==
    /\ pc = "indicators"
    /\ NRows(df) > 60
    /\ BaseColumns \cup {"MA5", "MA60", "DIF", "RSI24", "K", "J", "BOLL_UP", "volume_ratio"}
          \subseteq Columns(df)
    /\ At(df, "volume", NRows(df)) = Int2Num(100)
    /\ At(df, "volume_ratio", NRows(df)) = One

\* the adjustment the P/E, P/B and dividend-yield rules prescribe
C21_PeAdjust(spot) ==
    IF ~spot.present \/ spot.pe.t # "num" \/ spot.pe.v <= 0 THEN 0
    ELSE IF spot.pe.v < 15 THEN 20
    ELSE IF spot.pe.v < 25 THEN 10
    ELSE IF spot.pe.v < 40 THEN 0
    ELSE -10

C21_PbAdjust(spot) ==
    IF ~spot.present \/ spot.pb.t # "num" \/ spot.pb.v <= 0 THEN 0
    ELSE IF spot.pb.v < 2 THEN 10
    ELSE IF spot.pb.v > 5 THEN -5
    ELSE 0

C21_DvAdjust(val) == IF val.dv.t = "num" /\ val.dv.v > 2 THEN 10 ELSE 0

\* C21: analyze_valuation returns 50, plus 20 / 10 / 0 / -10 for a positive
\* P/E below 15 / below 25 / below 40 / from 40 up, plus 10 for a positive
\* P/B below 2 and minus 5 for a P/B above 5, plus 10 for a dividend yield
\* above 2; a P/E or P/B that is zero, negative or missing adds nothing.
C21_ValuationBuckets ==
    analysis["valuation"].present =>
        analysis["valuation"].result.score =
            50 + C21_PeAdjust(data.spot) + C21_PbAdjust(data.spot)
               + C21_DvAdjust(data.valuation)

\* the scorer has run on a quote with P/E exactly 25 and P/B exactly 5 and
\* a dividend yield of 3: only the dividend adds to the baseline
C21_AtThresholds ==
    /\ pc = "valuation"
    /\ data.spot = Spot(PyNum(25), PyNum(5))
    /\ data.valuation.dv = PyNum(3)
    /\ analysis["valuation"].present
    /\ analysis["valuation"].result.score = 60

C22_RevAdjust(g) ==
    IF g > 30 THEN 25 ELSE IF g > 15 THEN 15 ELSE IF g > 0 THEN 5 ELSE -10

C22_ProfitAdjust(g) ==
    IF g > 30 THEN 25 ELSE IF g > 15 THEN 15 ELSE IF g < 0 THEN -15 ELSE 0

\* the most recent report row gives revenue growth r and profit growth p
LatestGrowth(r, p) ==
    /\ data.financial.present
    /\ data.financial.rows # <<>>
    /\ data.financial.rows[1].rev = r
    /\ data.financial.rows[1].profit = p

\* C22: from the most recent report row, analyze_growth returns 50 plus,
\* for revenue growth g, 25 if g > 30, 15 if 15 < g <= 30, 5 if 0 < g <= 15
\* and -10 if g <= 0, plus, for profit growth g, 25 if g > 30, 15 if
\* 15 < g <= 30, -15 if g < 0 and nothing if 0 <= g <= 15.
C22_GrowthBuckets ==
    analysis["growth"].present =>
        \A r, p \in GrowthLevels :
            LatestGrowth(Percent(r), Percent(p)) =>
                analysis["growth"].result.score =
                    50 + C22_RevAdjust(r) + C22_ProfitAdjust(p)

\* the scorer has run on a latest row with revenue growth 0% and profit
\* growth 15%, above an older row with other figures: the score is 40
C22_ZeroRevenue ==
    /\ pc = "growth"
    /\ LatestGrowth(Percent(0), Percent(15))
    /\ Len(data.financial.rows) = 2
    /\ analysis["growth"].present
    /\ analysis["growth"].result.score = 40

\* C23: when the revenue-growth or the profit-growth field of the latest
\* row is missing or is not a number once the '%' is stripped,
\* analyze_growth skips that adjustment only, still applies the other
\* field's adjustment, and returns a result.
C23_SkipsOnlyUnparsed ==
    /\ data.financial.present /\ data.financial.rows # <<>> /\ pc \in {"growth", "fund_flow"}
          => analysis["growth"].present
    /\ analysis["growth"].present =>
          /\ \A u \in Unparsed, g \in GrowthLevels :
                /\ LatestGrowth(u, Percent(g)) =>
                      analysis["growth"].result.score = 50 + C22_ProfitAdjust(g)
                /\ LatestGrowth(Percent(g), u) =>
                      analysis["growth"].result.score = 50 + C22_RevAdjust(g)
          /\ \A u, v \in Unparsed :
                LatestGrowth(u, v) => analysis["growth"].result.score = 50

\* the scorer has run on a latest row whose revenue growth reads "--" and
\* whose profit growth is 31%: the score is 75
C23_RevenueUnparsed ==
    /\ pc = "growth"
    /\ LatestGrowth(PyStr(<<"-", "-">>), Percent(31))
    /\ analysis["growth"].present
    /\ analysis["growth"].result.score = 75

\* the sum of the last k figures of vals
RECURSIVE C24_SumLast(_, _)
C24_SumLast(vals, k) ==
    IF k = 0 \/ vals = <<>> THEN 0
    ELSE vals[Len(vals)].v + C24_SumLast(SubSeq(vals, 1, Len(vals) - 1), k - 1)

C24_Expected(vals) ==
    50 + (IF C24_SumLast(vals, 10) > 0 THEN 15 ELSE -10)
       + (IF C24_SumLast(vals, 3) > 0 /\ vals[Len(vals)].v > 0 THEN 10
          ELSE IF C24_SumLast(vals, 3) < 0 /\ vals[Len(vals)].v < 0 THEN -10
          ELSE 0)

\* C24: analyze_fund_flow returns 50, plus 15 if the trailing 10 daily net
\* inflow figures (all of them when there are fewer) sum to more than 0 and
\* minus 10 otherwise, plus 10 if the last 3 figures sum to more than 0 and
\* the latest is above 0, minus 10 if both are below 0; with no rows it
\* returns 50 and no signals.
C24_FundFlowRule ==
    analysis["fund_flow"].present =>
        IF data.fund_flow.vals = <<>>
        THEN analysis["fund_flow"].result = [score |-> 50, signals |-> <<>>]
        ELSE analysis["fund_flow"].result.score = C24_Expected(data.fund_flow.vals)

\* the scorer has run on eleven days whose first figure, 9, lies outside
\* the trailing ten, which sum to 0: the score is 40
C24_ElevenDays ==
    /\ pc = "fund_flow"
    /\ Len(data.fund_flow.vals) = 11
    /\ data.fund_flow.vals[1] = PyNum(9)
    /\ C24_SumLast(data.fund_flow.vals, 10) = 0
    /\ analysis["fund_flow"].present
    /\ analysis["fund_flow"].result.score = 40

\* what a get(key) made now is to return: the value of the last set(key)
\* unless the entry was deleted or cleared or its expiry time has passed
C25_Expected(key) ==
    IF written[key].state = "set" /\ clock <= written[key].expire_at
    THEN written[key].value
    ELSE PyNone

\* C25: after any sequence of set, get, delete, clear_expired and
\* clear_all, get(key) returns the value of the most recent set(key, ...)
\* if that entry has not been deleted and the clock is not past its expiry
\* time, and None otherwise; a get that finds an expired entry removes it.
C25_GetReturnsLatestSet ==
    [][(ret'.op = "get" /\ clock' = clock) =>
          /\ ret'.value = C25_Expected(ret'.key)
          /\ (cache[ret'.key].present /\ clock > cache[ret'.key].expire_at)
                => ~cache'[ret'.key].present]_vars

\* an entry expires before now
Expired(row) == row.present /\ row.expire_at < clock

\* C26: clear_expired removes exactly the entries whose expiry time is
\* before the current time, returns how many it removed, and leaves every
\* other entry as it was.
C26_ClearExpired ==
    [][(ret'.op = "clear_expired" /\ clock' = clock) =>
          /\ \A k \in CacheKeys :
                cache'[k] = IF Expired(cache[k]) THEN NoRow ELSE cache[k]
          /\ ret'.value = PyNum(Cardinality({k \in CacheKeys : Expired(cache[k])}))]_vars

\* clear_expired has removed one entry and kept one that expires exactly
\* now
C26_OneRemovedOneKept ==
    /\ ret.op = "clear_expired"
    /\ ret.value = PyNum(1)
    /\ \E k \in CacheKeys : cache[k].present /\ cache[k].expire_at = clock /\ clock > 0
    /\ \E k \in CacheKeys : ~cache[k].present /\ written[k].state = "set"
                              /\ written[k].expire_at < clock

\* the header followed by the reports of the stocks whose pass went
\* through, in watchlist order
RECURSIVE C27_Succeeded(_, _, _)
C27_Succeeded(watchlist, went, i) ==
    IF i > Len(watchlist) THEN <<>>
    ELSE (IF went[i] = "ok" THEN <<Report(watchlist[i]), Separator>> ELSE <<>>)
         \o C27_Succeeded(watchlist, went, i + 1)

\* a call of generate_report has returned
ReportReturned == all_reports # <<>> /\ pc # "stocks"

\* C27: in scheduler.generate_report an exception raised while analysing
\* or saving one stock's report does not stop the run: every stock of the
\* watchlist is handled, and afterwards the summary is written, holding
\* the reports of exactly the stocks that went through, in watchlist order.
C27_FailuresAreIsolated ==
    /\ pc = "stocks" => Len(attempts) <= Len(config.watchlist)
    /\ ReportReturned =>
          /\ Len(attempts) = Len(config.watchlist)
          /\ all_reports = Header \o C27_Succeeded(config.watchlist, attempts, 1)
          /\ \E n \in DOMAIN files : n[1] = "summary" /\ files[n] = all_reports

\* generate_report has returned for three stocks of which the first went
\* through, the second's analysis raised and the third's save raised
C27_MiddleStockFailed ==
    /\ ReportReturned
    /\ attempts = <<"ok", "analysis raises", "save raises">>
    /\ files[<<"summary", Day(clock)>>] = Header \o <<Report(Stocks[1]), Separator>>

\* C28: run_scheduler never runs the daily task when scheduler.enabled is
\* false; when enabled, every pass of its loop waits a non-negative time
\* until the next occurrence of daily_fetch_time (today's unless it has
\* passed, otherwise tomorrow's) and then runs the task once, so no run
\* starts before its target time and no two runs share a target time.
C28_RunsOncePerTarget ==
    args = "schedule" =>
        /\ ~config.enabled => runs = <<>>
        /\ pc = "sleep" =>
              /\ wait_seconds >= 0
              /\ target_time = clock + wait_seconds
              /\ target_time % DayTicks = config.daily_fetch_time
              /\ target_time - clock < DayTicks
        /\ \A i \in 1..Len(runs) : runs[i].at >= runs[i].target
        /\ \A i, j \in 1..Len(runs) : i < j => runs[i].target < runs[j].target

\* the scheduler has run the task on two days in a row, the first time
\* with no wait because it was started exactly at the fetch time
C28_TwoDays ==
    /\ args = "schedule"
    /\ Len(runs) = 2
    /\ runs[1].at = runs[1].target
    /\ runs[2].target = runs[1].target + DayTicks

AllFourPresent == \A key \in Dims : analysis[key].present

\* C29: whenever all four dimension scorers have run, valuation lies in
\* 35..90, growth in 25..100, fund flow in 30..75 and technical in 25..75,
\* and the total score get_total_score returns lies in 29..87.
C29_TotalRange ==
    AllFourPresent =>
        /\ analysis["valuation"].result.score \in 35..90
        /\ analysis["growth"].result.score \in 25..100
        /\ analysis["fund_flow"].result.score \in 30..75
        /\ analysis["technical"].result.score \in 25..75
        /\ total_score.set => total_score.v \in 29..87

\* the four scorers stored their highest scores, 90, 100, 75 and 75, and
\* get_total_score returned 87
C29_Highest ==
    /\ AllFourPresent
    /\ analysis["valuation"].result.score = 90
    /\ analysis["growth"].result.score = 100
    /\ analysis["fund_flow"].result.score = 75
    /\ analysis["technical"].result.score = 75
    /\ total_score = Value(87)

Families == {"MA", "MACD", "RSI", "KDJ", "BOLL"}

\* C30: for every price series analyze_signals returns at most one
\* classification for each of the families MA, MACD, RSI, KDJ and BOLL and
\* no other key, so the technical score is a multiple of 5 in 25..75 and
\* its signal list has at most 5 entries.
C30_FiveFamilies ==
    /\ \A i \in 1..Len(sig.signals) : sig.signals[i].name \in Families
    /\ \A i, j \in 1..Len(sig.signals) :
          sig.signals[i].name = sig.signals[j].name => i = j
    /\ analysis["technical"].present =>
          /\ analysis["technical"].result.score \in 25..75
          /\ analysis["technical"].result.score % 5 = 0
          /\ Len(analysis["technical"].result.signals) <= 5
          /\ Len(analysis["technical"].result.signals) = Len(sig.signals)

\* analyze_technical has run on a series of more than 60 bars: all five
\* families are classified, once each, and the score is 40
C30_AllFiveClassified ==
    /\ NRows(data.kline.df) > 60
    /\ sig.ran
    /\ {sig.signals[i].name : i \in 1..Len(sig.signals)} = Families
    /\ Len(sig.signals) = 5
    /\ analysis["technical"].present
    /\ analysis["technical"].result.score = 40

=============================================================================
